---- MODULE Spec2Model ----
(***************************************************************************)
(* Model of the distributed chat application: the per-process Hub          *)
(* (server/hub/hub.go), the client session pumps (server/client/client.go),*)
(* the websocket handler (server/handlers/websocket.go), the load reporter *)
(* (package loadbalancer in server/database/db.go) and the load balancer   *)
(* (loadbalancer/main.go).                                                 *)
(***************************************************************************)
EXTENDS Integers, Sequences, FiniteSets, TLC

\* ---------------------------------------------------------------- bounds
\* capacity of Client.Send; the program allocates 256 (websocket.go:35)
SendCap == 2
\* number of chat messages the sessions save in one behaviour: one more than a
\* queue holds, so that a session that writes nothing is found full
MaxFrames == 3
\* largest load a request sent straight to the load balancer carries
MaxLoad == 1
\* number of register and unregister requests a direct caller makes to a Hub
MaxCalls == 4

\* ------------------------------------------------------------- universes
Hubs == {"hA", "hB"}
Sessions == {"a1", "a2", "b1"}
HubOf == [s \in Sessions |-> IF s = "b1" THEN "hB" ELSE "hA"]
UserOf == [s \in Sessions |-> IF s = "a1" THEN "ann" ELSE IF s = "a2" THEN "bob" ELSE "cy"]
Contents == {"x", "y"}
\* the username field an inbound frame may carry: none, or a name of its choice
Names == {"", "eve"}
\* the addresses a request to the load balancer may carry
LBAddrs == Hubs
Loads == (0 - 1) .. MaxLoad
NoAddr == ""
\* the `id` field an inbound frame may carry: none, a JSON integer, a JSON
\* string
Ids == {"none", "number", "string"}
\* the faults a frame can meet: it is not JSON, the insert fails, the publish fails
Faults == {"malformed", "save", "publish"}
\* the environments of a behaviour: who connects, who sends chat frames, whose
\* peer may close or lose its connection, how many chat messages are saved,
\* which bus subscriptions may drop, whether a load report may fail to be
\* sent, which faults the frames meet, which contents, which username fields
\* and which id fields the frames carry.
\* Two clients of one process, both talking, a frame each; the peer of the
\* second keeps its connection.
OneHub == [dialers |-> {"a1", "a2"}, talkers |-> {"a1", "a2"}, leavers |-> {"a1"},
           frames |-> Cardinality({"a1", "a2"}),
           flaky |-> {}, lossy |-> FALSE, faults |-> {},
           contents |-> {"x"}, names |-> {""}, ids |-> {"none"}]
\* One client on each of two processes, the first one sending one frame.
TwoHubs == [dialers |-> {"a1", "b1"}, talkers |-> {"a1"}, leavers |-> {"a1", "b1"},
            frames |-> Cardinality({"a1"}),
            flaky |-> {}, lossy |-> FALSE, faults |-> {},
            contents |-> {"x"}, names |-> {""}, ids |-> {"none"}]
\* One client of a process whose bus subscription may drop and whose load
\* reports may fail, its frames failing to decode or to be stored, more
\* frames than its queue holds.
Flaky == [dialers |-> {"a1"}, talkers |-> {"a1"}, leavers |-> {"a1"},
          frames |-> MaxFrames,
          flaky |-> {"hA"}, lossy |-> TRUE, faults |-> {"malformed", "save"},
          contents |-> {"x"}, names |-> {""}, ids |-> {"none"}]
\* Two clients of one process, the first one talking, its frames meeting
\* faults; the peer of the second keeps its connection.
Faulty == [dialers |-> {"a1", "a2"}, talkers |-> {"a1"}, leavers |-> {"a1"},
           frames |-> Cardinality({"a1", "a2"}),
           flaky |-> {}, lossy |-> FALSE, faults |-> Faults,
           contents |-> {"x"}, names |-> {""}, ids |-> {"none"}]
\* Two clients of one process, the first one sending three frames and its
\* peer keeping its connection.
Slow == [dialers |-> {"a1", "a2"}, talkers |-> {"a1"}, leavers |-> {"a2"},
         frames |-> Cardinality(Sessions),
         flaky |-> {}, lossy |-> FALSE, faults |-> {},
         contents |-> {"x"}, names |-> {""}, ids |-> {"none"}]
Scenarios == {OneHub, TwoHubs, Flaky, Faulty, Slow}
\* one client whose frames carry any content, any username field and any id
\* field, its peer keeping its connection
Spoof == [dialers |-> {"a1"}, talkers |-> {"a1"}, leavers |-> {},
          frames |-> MaxFrames,
          flaky |-> {"hA"}, lossy |-> FALSE, faults |-> {},
          contents |-> Contents, names |-> Names, ids |-> Ids]
\* one client whose peer neither closes nor loses the connection and answers
\* every probe: its read fails only once the server has closed the transport
Kept == [dialers |-> {"a1"}, talkers |-> {"a1"}, leavers |-> {},
         frames |-> MaxFrames,
         flaky |-> {"hA"}, lossy |-> FALSE, faults |-> {},
         contents |-> {"x"}, names |-> {""}, ids |-> {"none"}]
Environments == Scenarios \cup {Spoof, Kept}

VARIABLES
    \* ---- loadbalancer/main.go
    lbServers,   \* LoadBalancer.servers: address -> Load
    lbLast,      \* the last request of a client of the load balancer, with the answer
    \* ---- hub.Hub, one per process
    clients,     \* Hub.clients, the registry
    runPc,       \* Hub.Run: not yet run (NoRun), at its select (NoReq), or the
                 \* request it has received, its position in the case and the local
                 \* `load` of the case
    lsPc,        \* position of Hub.listenToRedis: "idle" before Hub.Run started it,
                 \* "start" until its subscription is in effect, "recv", "lock",
                 \* "evict", "done"
    rawMsg,      \* the payload listenToRedis has received and not yet fanned out
    toRemove,    \* the local clientsToRemove of listenToRedis
    subQ,        \* pubsub.Channel() of the hub's subscription
    subLive,     \* the bus holds the subscription of the hub, its channel not closed
    panicked,    \* the process died of a runtime panic
    \* ---- client.Client, one per accepted connection
    svPc,        \* position of handlers.ServeWS for the connection
    rdPc,        \* position of Client.ReadPump: "idle", "read", "save", "publish"
                 \* (in PublishMessage, the PUBLISH not yet at the bus), "sent" (in
                 \* PublishMessage, the bus has the payload, the reply not yet
                 \* back), "unreg", "closing", "done"
    wrPc,        \* position of Client.WritePump
    message,     \* the payload WritePump has received from Send and not yet written
    Send,        \* Client.Send, the buffered outbound channel
    sendClosed,  \* Client.Send has been closed
    onceDone,    \* Client.CloseOnce has run
    connOpen,    \* Client.Conn has not been closed by the server
    written,     \* frames written to Client.Conn, in order
    username,    \* the username query value of the request; Client.Username
    \* ---- store and history
    store,       \* rows of the messages table
    pubs,        \* the payloads PublishMessage handed to the bus, in order
    closes,      \* close(client.Send) executions per session
    unregs,      \* unregister requests Hub.Run has received per session
    reports,     \* calls of lbClient.UpdateLoad by Hub.Run: count, last load, sent
    hubLast,     \* the last request of a direct caller of RegisterClient/UnregisterClient
    reqs,        \* per session: the register requests Hub.Run has received less the
                 \* unregister requests it received while the session was in the
                 \* registry, and the kind of the last request it received
    rdLast,      \* the last frame a ReadPump handled: the session, how the iteration ended
    rdFrame,     \* per ReadPump: the frame its last ReadMessage returned
    hubErrs,     \* the errors the goroutines of a Hub have logged or returned
    scn,         \* the environment of this behaviour (see Scenarios)
    \* ---- Hub.mu
    mu,          \* Hub.mu is locked
    lkPc,        \* per goroutine of a Hub: "in" between its mu.Lock and mu.Unlock
    loadRead,    \* the last value Hub.GetLoad returned, as a sequence of length 1
    \* ---- LoadBalancer.mu
    lbMu,        \* the handler that holds lb.mu, or NoHandler
    lbPc,        \* per handler: its request and its position in the handler
    \* ---- the channels of a Hub
    waitQ        \* per Hub: the senders blocked on h.register and h.unregister,
                 \* in the order in which they came

lbVars == <<lbServers, lbLast>>
hubVars == <<clients, runPc, lsPc, toRemove, subQ, subLive, panicked, rawMsg>>
sessVars == <<svPc, rdPc, wrPc, Send, sendClosed, onceDone, connOpen, written, username,
              message>>
histVars == <<store, pubs, closes, unregs, reports, hubLast, reqs, rdLast, rdFrame, hubErrs,
              scn>>
lbLockVars == <<lbMu, lbPc>>
hubLockVars == <<mu, lkPc, loadRead>>
lockVars == <<mu, lkPc, loadRead, lbMu, lbPc, waitQ>>
vars == <<lbServers, lbLast, clients, runPc, lsPc, toRemove, subQ, subLive,
          panicked, svPc, rdPc, wrPc, Send, sendClosed, onceDone, connOpen, written,
          store, pubs, closes, unregs, reports, hubLast, reqs, rdLast, scn,
          username, rdFrame, hubErrs, mu, lkPc, loadRead, lbMu, lbPc, waitQ,
          rawMsg, message>>

\* ------------------------------------------------------------- helpers
Range(f) == {f[i] : i \in DOMAIN f}

\* all orders in which a Go `range` over a map with key set S can visit it
Orders(S) == {q \in [1 .. Cardinality(S) -> S] : Range(q) = S}

\* ================================================= loadbalancer/main.go
BadBody == [ok |-> FALSE, address |-> NoAddr, load |-> 0]
Bodies == {BadBody} \cup [ok : {TRUE}, address : LBAddrs, load : Loads]

LBAnswer(op, status, addr, load) == [op |-> op, status |-> status, Address |-> addr, load |-> load]

\* lb.servers[s.Address] = &ChatServerInfo{...}
PutServer(tab, addr, load) ==
    [a \in (DOMAIN tab) \cup {addr} |-> IF a = addr THEN load ELSE tab[a]]

\* registerServer: decode, 400 on error, else overwrite the entry
registerServerReset(tab, body) ==
    IF ~body.ok THEN tab ELSE [a \in {body.address} |-> body.load]
registerServer(tab, body) ==
    IF ~body.ok THEN tab ELSE PutServer(tab, body.address, body.load)

\* updateServer: decode, 400 on error, else existing.Load = s.Load or insert
updateServerKeepMax(tab, body) ==
    IF ~body.ok THEN tab
    ELSE IF body.address \in DOMAIN tab
         THEN [tab EXCEPT ![body.address] = IF body.load > @ THEN body.load ELSE @]
         ELSE PutServer(tab, body.address, body.load)
updateServer(tab, body) ==
    IF ~body.ok THEN tab
    ELSE IF body.address \in DOMAIN tab
         THEN [tab EXCEPT ![body.address] = body.load]
         ELSE PutServer(tab, body.address, body.load)

\* the scan of getServer over one iteration order:
\*   if bestServer == nil || s.Load < bestServer.Load { bestServer = s }
RECURSIVE ScanBest(_, _, _, _)
ScanBestFlip(tab, order, i, best) ==
    IF i > Len(order) THEN best
    ELSE IF best = NoAddr \/ tab[order[i]] > tab[best]
         THEN ScanBest(tab, order, i + 1, order[i])
         ELSE ScanBest(tab, order, i + 1, best)
ScanBest(tab, order, i, best) ==
    IF i > Len(order) THEN best
    ELSE IF best = NoAddr \/ tab[order[i]] < tab[best]
         THEN ScanBest(tab, order, i + 1, order[i])
         ELSE ScanBest(tab, order, i + 1, best)

\* getServer: 503 on an empty table, else the result of the scan
getServerEager(tab, order) ==
    IF Cardinality(DOMAIN tab) <= 1
    THEN LBAnswer("get", 503, NoAddr, 0)
    ELSE LBAnswer("get", 200, ScanBest(tab, order, 1, NoAddr), tab[ScanBest(tab, order, 1, NoAddr)])
getServer(tab, order) ==
    IF Cardinality(DOMAIN tab) = 0
    THEN LBAnswer("get", 503, NoAddr, 0)
    ELSE IF ScanBest(tab, order, 1, NoAddr) = NoAddr
         THEN LBAnswer("get", 500, NoAddr, 0)
         ELSE LBAnswer("get", 200, ScanBest(tab, order, 1, NoAddr),
                       tab[ScanBest(tab, order, 1, NoAddr)])

NoAnswer == LBAnswer("none", 0, NoAddr, 0)

\* ------------------------------------------- loadbalancer/main.go lb.mu
\* the goroutines net/http runs the handlers on, one per request in progress
Handlers == {"q1", "q2"}
\* lb.mu is free
NoHandler == "free"
Idle == [at |-> "idle", op |-> "none", body |-> BadBody]
\* the requests the handlers are given: a POST /register or a POST /update
\* with any body, a GET /get
Requests ==
    [op : {"register", "update"}, body : Bodies] \cup [op : {"get"}, body : {BadBody}]

\* the mux hands a request to a handler; the handler decodes its body
LBAccept(r) ==
    /\ lbPc[r] = Idle
    /\ \E q \in Requests : lbPc' = [lbPc EXCEPT ![r] = [at |-> "decoded", op |-> q.op, body |-> q.body]]
    /\ UNCHANGED <<lbVars, lbMu>>

\* registerServer, updateServer: the body does not decode, http.Error 400
LBReject(r) ==
    /\ lbPc[r].at = "decoded"
    /\ lbPc[r].op # "get"
    /\ ~lbPc[r].body.ok
    /\ lbLast' = LBAnswer(lbPc[r].op, 400, lbPc[r].body.address, lbPc[r].body.load)
    /\ lbPc' = [lbPc EXCEPT ![r].at = "responded"]
    /\ UNCHANGED <<lbServers, lbMu>>

\* lb.mu.Lock()
LBLockLenient(r) ==
    /\ lbPc[r].at = "decoded"
    /\ lbMu = NoHandler
    /\ lbMu' = r
    /\ lbPc' = [lbPc EXCEPT ![r].at = "locked"]
    /\ UNCHANGED lbVars
LBLock(r) ==
    /\ lbPc[r].at = "decoded"
    /\ lbPc[r].op = "get" \/ lbPc[r].body.ok
    /\ lbMu = NoHandler
    /\ lbMu' = r
    /\ lbPc' = [lbPc EXCEPT ![r].at = "locked"]
    /\ UNCHANGED lbVars

\* registerServer, updateServer: the write of the entry, lb.mu.Unlock()
LBWrite(r) ==
    /\ lbPc[r].at = "locked"
    /\ lbPc[r].op # "get"
    /\ lbServers' = IF lbPc[r].op = "register"
                    THEN registerServer(lbServers, lbPc[r].body)
                    ELSE updateServer(lbServers, lbPc[r].body)
    /\ lbMu' = NoHandler
    /\ lbPc' = [lbPc EXCEPT ![r].at = "unlocked"]
    /\ UNCHANGED lbLast

\* registerServer, updateServer: w.WriteHeader(http.StatusOK)
LBRespond(r) ==
    /\ lbPc[r].at = "unlocked"
    /\ lbLast' = LBAnswer(lbPc[r].op, 200, lbPc[r].body.address, lbPc[r].body.load)
    /\ lbPc' = [lbPc EXCEPT ![r].at = "responded"]
    /\ UNCHANGED <<lbServers, lbMu>>

\* getServer after lb.mu.Lock(): the scan and the http.Error or the
\* Encode of the answer to the ResponseWriter
LBGetRespondReserve(r) ==
    /\ lbPc[r].at = "locked"
    /\ lbPc[r].op = "get"
    /\ \E order \in Orders(DOMAIN lbServers) :
          /\ lbLast' = getServer(lbServers, order)
          /\ lbServers' = IF getServer(lbServers, order).status = 200
                          THEN [lbServers EXCEPT ![getServer(lbServers, order).Address] = @ + 1]
                          ELSE lbServers
    /\ lbPc' = [lbPc EXCEPT ![r].at = "responded"]
    /\ UNCHANGED lbMu
LBGetRespond(r) ==
    /\ lbPc[r].at = "locked"
    /\ lbPc[r].op = "get"
    /\ \E order \in Orders(DOMAIN lbServers) : lbLast' = getServer(lbServers, order)
    /\ lbPc' = [lbPc EXCEPT ![r].at = "responded"]
    /\ UNCHANGED <<lbServers, lbMu>>

\* the handler returns; getServer's deferred lb.mu.Unlock() runs here
LBReturn(r) ==
    /\ lbPc[r].at = "responded"
    /\ lbMu' = IF lbPc[r].op = "get" THEN NoHandler ELSE lbMu
    /\ lbPc' = [lbPc EXCEPT ![r] = Idle]
    /\ UNCHANGED lbVars

\* ======================================================= server process
\* models.Message as ReadPump builds it, with the ordinal of the publish that
\* carried it (history: tells two publishes of equal content apart)
Msg(user, content, server, seq) ==
    [Username |-> user, Content |-> content, Server |-> server, seq |-> seq]
CloseFrame == Msg("", "", "", 0)

\* inbound frames: not JSON, or a JSON object with a content field, with or
\* without a username field, with or without an id field
Frames == [ok : BOOLEAN, content : Contents, username : Names, id : Ids]
NoInbound == [ok |-> FALSE, content |-> "", username |-> "", id |-> "none"]

\* json.Unmarshal(message, &incomingMsg) into a models.Message: an error for
\* a frame that is not JSON and for a field whose JSON type is not the Go type
\* of the field (ID is an int64); else the Content of the frame
Unmarshal(f) ==
    IF ~f.ok \/ f.id = "string"
    THEN [err |-> TRUE, Content |-> ""]
    ELSE [err |-> FALSE, Content |-> f.content]

\* before the request: no username query value
NoQuery == "?"

SessionsOf(h) == {s \in Sessions : HubOf[s] = h}

\* the processes that are started: those a client of the behaviour dials
Started == {HubOf[s] : s \in scn.dialers}

\* ------------------------------------------- handlers/websocket.go ServeWS
\* up to the blocking hub.RegisterClient(client)
ServeWSAnonymous(s) ==
    /\ svPc[s] = "none"
    /\ s \in scn.dialers
    /\ ~panicked[HubOf[s]]
    /\ \E name \in {"", UserOf[s]}, upgraded \in BOOLEAN :
          /\ username' = [username EXCEPT ![s] = name]
          /\ svPc' = [svPc EXCEPT ![s] = IF ~upgraded THEN "failed" ELSE "registering"]
          /\ connOpen' = [connOpen EXCEPT ![s] = upgraded]
    /\ UNCHANGED <<lbVars, hubVars, rdPc, wrPc, Send, sendClosed, onceDone, written,
                   message, histVars>>
ServeWS(s) ==
    /\ svPc[s] = "none"
    /\ s \in scn.dialers
    /\ ~panicked[HubOf[s]]
    /\ \E name \in {"", UserOf[s]}, upgraded \in BOOLEAN :
          /\ username' = [username EXCEPT ![s] = name]
          /\ svPc' = [svPc EXCEPT ![s] = IF name = "" THEN "rejected"
                                          ELSE IF ~upgraded THEN "failed"
                                          ELSE "registering"]
          /\ connOpen' = [connOpen EXCEPT ![s] = name # "" /\ upgraded]
    /\ UNCHANGED <<lbVars, hubVars, rdPc, wrPc, Send, sendClosed, onceDone, written,
                   message, histVars>>

\* after RegisterClient returned: go client.WritePump(); go client.ReadPump()
ServeWSStartEarly(s) ==
    /\ svPc[s] = "registering"
    /\ rdPc[s] = "idle"
    /\ ~panicked[HubOf[s]]
    /\ rdPc' = [rdPc EXCEPT ![s] = "read"]
    /\ wrPc' = [wrPc EXCEPT ![s] = "run"]
    /\ UNCHANGED <<lbVars, hubVars, svPc, Send, sendClosed, onceDone, connOpen, written,
                   message, histVars, username>>
ServeWSStart(s) ==
    /\ svPc[s] = "registered"
    /\ ~panicked[HubOf[s]]
    /\ svPc' = [svPc EXCEPT ![s] = "started"]
    /\ rdPc' = [rdPc EXCEPT ![s] = "read"]
    /\ wrPc' = [wrPc EXCEPT ![s] = "run"]
    /\ UNCHANGED <<lbVars, hubVars, Send, sendClosed, onceDone, connOpen, written,
                   message, histVars, username>>

\* ---------------------------------------------------- hub/hub.go Hub.Run
\* the outcomes of http.Post to the load balancer: sent, or an error
Reachable == IF scn.lossy THEN BOOLEAN ELSE {TRUE}

\* before the first UpdateLoad: main has posted load 0 with lbClient.Register()
NoReport == [n |-> 0, load |-> 0, sent |-> TRUE]

\* h.lbClient.UpdateLoad(load): what the POST /update does to the table of the
\* load balancer
UpdateLoadAnyway(h, load, sent) ==
    updateServer(lbServers, [ok |-> TRUE, address |-> h, load |-> load])
UpdateLoadKeepMax(h, load, sent) ==
    IF sent THEN updateServerKeepMax(lbServers, [ok |-> TRUE, address |-> h, load |-> load])
    ELSE lbServers
UpdateLoad(h, load, sent) ==
    IF sent THEN updateServer(lbServers, [ok |-> TRUE, address |-> h, load |-> load])
    ELSE lbServers

\* what Hub.Run is doing: at its select, or in the case of a request it
\* received: before the h.mu.Lock() of the case ("case"), after its
\* h.mu.Unlock() with the local `load` ("report"), in http.Post after the load
\* balancer handled the request or the request failed ("posted")
Req(op, c) == [op |-> op, c |-> c, at |-> "case", load |-> 0]
NoReq == [op |-> "select", c |-> "", at |-> "select", load |-> 0]
\* main has launched `go hub.Run()`, which has not run yet
NoRun == [op |-> "start", c |-> "", at |-> "start", load |-> 0]

\* the first statement of Hub.Run: go h.listenToRedis(); Hub.Run goes on to
\* its select
RunStart(h) ==
    /\ ~panicked[h]
    /\ runPc[h] = NoRun
    /\ lsPc[h] = "idle"
    /\ runPc' = [runPc EXCEPT ![h] = NoReq]
    /\ lsPc' = [lsPc EXCEPT ![h] = "start"]
    /\ UNCHANGED <<lbVars, clients, toRemove, subQ, subLive, panicked, rawMsg, sessVars,
                   histVars>>

\* the end of the critical section of a case that changed the registry:
\* load := len(h.clients); h.mu.Unlock()
Loaded(h, load) == [runPc EXCEPT ![h].at = "report", ![h].load = load]

\* case client := <-h.register, from h.mu.Lock() to h.mu.Unlock()
RegisterCaseDrop(h, c) ==
    /\ clients' = clients
    /\ runPc' = Loaded(h, Cardinality(clients[h]))
RegisterCaseStale(h, c) ==
    /\ clients' = [clients EXCEPT ![h] = @ \cup {c}]
    /\ runPc' = Loaded(h, Cardinality(clients[h]))
RegisterCaseToggle(h, c) ==
    /\ clients' = [clients EXCEPT ![h] = IF c \in @ THEN @ \ {c} ELSE @ \cup {c}]
    /\ runPc' = Loaded(h, Cardinality(clients'[h]))
RegisterCase(h, c) ==
    /\ clients' = [clients EXCEPT ![h] = @ \cup {c}]
    /\ runPc' = Loaded(h, Cardinality(clients[h] \cup {c}))

\* history: Hub.Run receives the request op for session c
Asked(op, c) ==
    [reqs EXCEPT ![c] =
        [net |-> IF op = "register" THEN @.net + 1
                 ELSE IF c \in clients[HubOf[c]] THEN @.net - 1 ELSE @.net,
         last |-> op]]

\* h.register <- c of RegisterClient meets the receive of Hub.Run: ServeWS goes
\* on, Hub.Run enters the register case
RunRegister(h, c) ==
    /\ ~panicked[h]
    /\ HubOf[c] = h
    /\ runPc[h] = NoReq
    /\ svPc[c] = "registering"
    /\ runPc' = [runPc EXCEPT ![h] = Req("register", c)]
    /\ svPc' = [svPc EXCEPT ![c] = "registered"]
    /\ reqs' = Asked("register", c)
    /\ UNCHANGED <<lbVars, clients, lsPc, toRemove, subQ, subLive, panicked, rawMsg, rdPc,
                   wrPc, Send, sendClosed, onceDone, connOpen, written, message,
                   username, store, pubs, closes, unregs, reports,
                   hubLast, rdLast, rdFrame, hubErrs, scn>>

\* close(client.Send): closing a closed channel panics
CloseSend(h, c) ==
    /\ closes' = [closes EXCEPT ![c] = @ + 1]
    /\ sendClosed' = [sendClosed EXCEPT ![c] = TRUE]
    /\ panicked' = [panicked EXCEPT ![h] = @ \/ sendClosed[c]]

\* case client := <-h.unregister, from h.mu.Lock() to h.mu.Unlock(); for a
\* client that is not in the registry the case ends there
UnregisterCaseUnguarded(h, c) ==
    /\ unregs' = [unregs EXCEPT ![c] = @ + 1]
    /\ clients' = [clients EXCEPT ![h] = @ \ {c}]
    /\ CloseSend(h, c)
    /\ onceDone' = onceDone
    /\ runPc' = Loaded(h, Cardinality(clients[h] \ {c}))
UnregisterCaseNoClose(h, c) ==
    /\ unregs' = [unregs EXCEPT ![c] = @ + 1]
    /\ IF c \in clients[h]
       THEN /\ clients' = [clients EXCEPT ![h] = @ \ {c}]
            /\ UNCHANGED <<closes, sendClosed, panicked, onceDone>>
            /\ runPc' = Loaded(h, Cardinality(clients[h] \ {c}))
       ELSE /\ runPc' = [runPc EXCEPT ![h] = NoReq]
            /\ UNCHANGED <<clients, closes, sendClosed, panicked, onceDone>>
UnregisterCaseKeep(h, c) ==
    /\ unregs' = [unregs EXCEPT ![c] = @ + 1]
    /\ IF c \in clients[h]
       THEN /\ clients' = clients
            /\ IF onceDone[c]
               THEN UNCHANGED <<closes, sendClosed, panicked>>
               ELSE CloseSend(h, c)
            /\ onceDone' = [onceDone EXCEPT ![c] = TRUE]
            /\ runPc' = Loaded(h, Cardinality(clients[h] \ {c}))
       ELSE /\ runPc' = [runPc EXCEPT ![h] = NoReq]
            /\ UNCHANGED <<clients, closes, sendClosed, panicked, onceDone>>
UnregisterCaseAll(h, c) ==
    /\ unregs' = [unregs EXCEPT ![c] = @ + 1]
    /\ IF c \in clients[h]
       THEN /\ clients' = [clients EXCEPT ![h] = {}]
            /\ IF onceDone[c]
               THEN UNCHANGED <<closes, sendClosed, panicked>>
               ELSE CloseSend(h, c)
            /\ onceDone' = [onceDone EXCEPT ![c] = TRUE]
            /\ runPc' = Loaded(h, 0)
       ELSE /\ runPc' = [runPc EXCEPT ![h] = NoReq]
            /\ UNCHANGED <<clients, closes, sendClosed, panicked, onceDone>>
UnregisterCase(h, c) ==
    /\ unregs' = [unregs EXCEPT ![c] = @ + 1]
    /\ IF c \in clients[h]
       THEN /\ clients' = [clients EXCEPT ![h] = @ \ {c}]
            /\ IF onceDone[c]
               THEN UNCHANGED <<closes, sendClosed, panicked>>
               ELSE CloseSend(h, c)
            /\ onceDone' = [onceDone EXCEPT ![c] = TRUE]
            /\ runPc' = Loaded(h, Cardinality(clients[h] \ {c}))
       ELSE /\ runPc' = [runPc EXCEPT ![h] = NoReq]
            /\ UNCHANGED <<clients, closes, sendClosed, panicked, onceDone>>

\* h.unregister <- c of the deferred c.Hub.UnregisterClient(c) of ReadPump
\* meets the receive of Hub.Run
RunUnregisterReadBusy(h, c) ==
    /\ ~panicked[h]
    /\ HubOf[c] = h
    /\ rdPc[c] = "unreg"
    /\ runPc' = [runPc EXCEPT ![h] = Req("unregister", c)]
    /\ rdPc' = [rdPc EXCEPT ![c] = "closing"]
    /\ reqs' = Asked("unregister", c)
    /\ UNCHANGED <<lbVars, clients, lsPc, toRemove, subQ, subLive, panicked, rawMsg, svPc,
                   wrPc, Send, sendClosed, onceDone, connOpen, written, message,
                   username, store, pubs, closes, unregs, reports,
                   hubLast, rdLast, rdFrame, hubErrs, scn>>
RunUnregisterRead(h, c) ==
    /\ ~panicked[h]
    /\ HubOf[c] = h
    /\ runPc[h] = NoReq
    /\ rdPc[c] = "unreg"
    /\ runPc' = [runPc EXCEPT ![h] = Req("unregister", c)]
    /\ rdPc' = [rdPc EXCEPT ![c] = "closing"]
    /\ reqs' = Asked("unregister", c)
    /\ UNCHANGED <<lbVars, clients, lsPc, toRemove, subQ, subLive, panicked, rawMsg, svPc,
                   wrPc, Send, sendClosed, onceDone, connOpen, written, message,
                   username, store, pubs, closes, unregs, reports,
                   hubLast, rdLast, rdFrame, hubErrs, scn>>

\* `h.unregister <- client` of listenToRedis meets the receive of Hub.Run
RunUnregisterEvict(h) ==
    /\ ~panicked[h]
    /\ runPc[h] = NoReq
    /\ lsPc[h] = "evict"
    /\ runPc' = [runPc EXCEPT ![h] = Req("unregister", Head(toRemove[h]))]
    /\ toRemove' = [toRemove EXCEPT ![h] = Tail(@)]
    /\ lsPc' = [lsPc EXCEPT ![h] = IF Len(toRemove[h]) = 1 THEN "recv" ELSE "evict"]
    /\ reqs' = Asked("unregister", Head(toRemove[h]))
    /\ UNCHANGED <<lbVars, clients, subQ, subLive, panicked, rawMsg, sessVars,
                   store, pubs, closes, unregs, reports,
                   hubLast, rdLast, rdFrame, hubErrs, scn>>

\* the critical section of the case Hub.Run received: h.mu.Lock(), the change
\* of the registry, load := len(h.clients), h.mu.Unlock()
RunCase(h) ==
    /\ ~panicked[h]
    /\ runPc[h].at = "case"
    /\ IF runPc[h].op = "register"
       THEN /\ RegisterCase(h, runPc[h].c)
            /\ UNCHANGED <<closes, sendClosed, panicked, onceDone, unregs>>
       ELSE UnregisterCase(h, runPc[h].c)
    /\ UNCHANGED <<lbVars, lsPc, toRemove, subQ, subLive, rawMsg, svPc, rdPc, wrPc, Send,
                   connOpen, written, message, store, pubs, reports, hubLast, reqs, rdLast,
                   scn, username, rdFrame, hubErrs>>

\* h.lbClient.UpdateLoad(load) after the h.mu.Unlock() and the log line of the
\* case: the POST /update reaches the load balancer, which writes the entry,
\* or the request fails
RunReport(h) ==
    /\ ~panicked[h]
    /\ runPc[h].at = "report"
    /\ \E sent \in Reachable :
          /\ lbServers' = UpdateLoad(h, runPc[h].load, sent)
          /\ reports' = [reports EXCEPT ![h] = [n |-> @.n + 1, load |-> runPc[h].load,
                                                sent |-> sent]]
    /\ runPc' = [runPc EXCEPT ![h].at = "posted"]
    /\ UNCHANGED <<lbLast, clients, lsPc, toRemove, subQ, subLive, panicked, rawMsg,
                   sessVars, store, pubs, closes, unregs, hubLast, reqs, rdLast, rdFrame,
                   hubErrs, scn>>

\* http.Post returns: an error is logged and dropped; Hub.Run is back at its
\* select
RunReturn(h) ==
    /\ ~panicked[h]
    /\ runPc[h].at = "posted"
    /\ hubErrs' = [hubErrs EXCEPT ![h] = IF reports[h].sent THEN @ ELSE @ \cup {"update load"}]
    /\ runPc' = [runPc EXCEPT ![h] = NoReq]
    /\ UNCHANGED <<lbVars, clients, lsPc, toRemove, subQ, subLive, panicked, rawMsg,
                   sessVars, store, pubs, closes, unregs, reports, hubLast, reqs, rdLast,
                   rdFrame, scn>>

\* ------------------------------------------- hub/hub.go Hub.listenToRedis
\* the non-blocking send of the fan-out, for every registered client
FanOutNoLimit(h, m) ==
    [c \in Sessions |-> IF c \in clients[h] THEN Append(Send[c], m) ELSE Send[c]]
FanOutOwnOnly(h, m) ==
    [c \in Sessions |-> IF c \in clients[h] /\ Len(Send[c]) < SendCap /\ m.Server = h
                        THEN Append(Send[c], m) ELSE Send[c]]
FanOut(h, m) ==
    [c \in Sessions |-> IF c \in clients[h] /\ Len(Send[c]) < SendCap
                        THEN Append(Send[c], m) ELSE Send[c]]

\* the clients whose send took the default branch
Stalled(h) == {c \in clients[h] : Len(Send[c]) >= SendCap}

\* no payload in hand
NoMsg == <<>>

\* pubsub := h.redisClient.Subscribe(h.ctx, redisChannel); ch := pubsub.Channel():
\* the subscription is in effect at the bus, which hands it the payloads
\* published from now on; listenToRedis is at its select
ListenSubscribe(h) ==
    /\ lsPc[h] = "start"
    /\ ~panicked[h]
    /\ subLive' = [subLive EXCEPT ![h] = TRUE]
    /\ lsPc' = [lsPc EXCEPT ![h] = "recv"]
    /\ UNCHANGED <<lbVars, clients, runPc, toRemove, subQ, panicked, rawMsg, sessVars,
                   histVars>>

\* case rawMsg, ok := <-ch with ok: the payload leaves the channel of the
\* subscription; listenToRedis goes on to its h.mu.Lock()
ListenRecv(h) ==
    /\ lsPc[h] = "recv"
    /\ ~panicked[h]
    /\ subQ[h] # <<>>
    /\ rawMsg' = [rawMsg EXCEPT ![h] = <<Head(subQ[h])>>]
    /\ subQ' = [subQ EXCEPT ![h] = Tail(@)]
    /\ lsPc' = [lsPc EXCEPT ![h] = "lock"]
    /\ UNCHANGED <<lbVars, clients, runPc, toRemove, subLive, panicked, sessVars, histVars>>

\* the critical section of listenToRedis: h.mu.Lock(), the fan-out of rawMsg
\* over h.clients, h.mu.Unlock(); a send on a closed channel panics
ListenDeliverBlocking(h) ==
    /\ lsPc[h] = "lock"
    /\ ~panicked[h]
    /\ Stalled(h) = {}
    /\ IF \E c \in clients[h] : sendClosed[c]
       THEN /\ panicked' = [panicked EXCEPT ![h] = TRUE]
            /\ UNCHANGED <<Send, lsPc, rawMsg>>
       ELSE /\ Send' = FanOut(h, Head(rawMsg[h]))
            /\ rawMsg' = [rawMsg EXCEPT ![h] = NoMsg]
            /\ lsPc' = [lsPc EXCEPT ![h] = "recv"]
            /\ UNCHANGED panicked
    /\ UNCHANGED <<lbVars, clients, runPc, subQ, subLive, svPc, rdPc, wrPc, sendClosed,
                   onceDone, connOpen, written, message, histVars, toRemove, username>>
ListenDeliver(h) ==
    /\ lsPc[h] = "lock"
    /\ ~panicked[h]
    /\ IF \E c \in clients[h] : sendClosed[c]
       THEN /\ panicked' = [panicked EXCEPT ![h] = TRUE]
            /\ UNCHANGED <<Send, toRemove, lsPc, rawMsg>>
       ELSE /\ Send' = FanOut(h, Head(rawMsg[h]))
            /\ rawMsg' = [rawMsg EXCEPT ![h] = NoMsg]
            /\ \E order \in Orders(Stalled(h)) :
                  /\ toRemove' = [toRemove EXCEPT ![h] = order]
                  /\ lsPc' = [lsPc EXCEPT ![h] = IF order = <<>> THEN "recv" ELSE "evict"]
            /\ UNCHANGED panicked
    /\ UNCHANGED <<lbVars, clients, runPc, subQ, subLive, svPc, rdPc, wrPc, sendClosed,
                   onceDone, connOpen, written, message, histVars, username>>

\* case rawMsg, ok := <-ch with !ok: return
ListenClosed(h) ==
    /\ lsPc[h] = "recv"
    /\ ~panicked[h]
    /\ subQ[h] = <<>>
    /\ ~subLive[h]
    /\ lsPc' = [lsPc EXCEPT ![h] = "done"]
    /\ UNCHANGED <<lbVars, clients, runPc, toRemove, subQ, subLive, panicked, rawMsg,
                   sessVars, histVars>>

\* the bus closes the subscription channel of h
SubDrop(h) ==
    /\ subLive[h]
    /\ h \in scn.flaky
    /\ subLive' = [subLive EXCEPT ![h] = FALSE]
    /\ UNCHANGED <<lbVars, clients, runPc, lsPc, toRemove, subQ, panicked, rawMsg,
                   sessVars, histVars>>

\* ------------------------------------------ client/client.go Client.ReadPump
\* redisClient.Publish: the bus hands the payload to every subscription it
\* holds at that moment
Publish(m) ==
    [h \in Hubs |-> IF subLive[h] THEN Append(subQ[h], m) ELSE subQ[h]]

\* what one successful PublishMessage does to the queues
PublishStepLocal(c, m) ==
    /\ subQ' = Publish(m)
    /\ Send' = FanOut(HubOf[c], m)
PublishStep(c, m) ==
    /\ subQ' = Publish(m)
    /\ Send' = Send

\* how an iteration of the read loop ended
FrameDone(c, kind) == [c |-> c, kind |-> kind]
NoFrame == FrameDone("", "none")

\* the frames, and the results of the insert and of the publish, of the behaviour
Inbound ==
    {f \in Frames :
        IF f.ok
        THEN f.content \in scn.contents /\ f.username \in scn.names /\ f.id \in scn.ids
        ELSE "malformed" \in scn.faults /\ f.content = "x" /\ f.username = ""
             /\ f.id = "none"}
SaveOutcomes == IF "save" \in scn.faults THEN BOOLEAN ELSE {TRUE}
PublishOutcomes == IF "publish" \in scn.faults THEN BOOLEAN ELSE {TRUE}

\* the read loops that are in SaveMessage
Saving == {c \in Sessions : rdPc[c] = "save"}

\* json.Unmarshal returned an error: log, continue
MalformedFatal(c) ==
    /\ rdLast' = FrameDone(c, "malformed")
    /\ rdPc' = [rdPc EXCEPT ![c] = "unreg"]
Malformed(c) ==
    /\ rdLast' = FrameDone(c, "malformed")
    /\ rdPc' = rdPc

\* the models.Message of a frame: Username: c.Username, Content:
\* incomingMsg.Content, Server: c.Hub.GetAddress()
StampTrusting(c, f, seq) ==
    Msg(IF f.username # "" THEN f.username ELSE username[c], Unmarshal(f).Content,
        HubOf[c], seq)
Stamp(c, f, seq) ==
    Msg(username[c], Unmarshal(f).Content, HubOf[c], seq)

\* c.Conn.ReadMessage() returned a frame; json.Unmarshal; for a frame that
\* decodes the message is built and the loop goes on to c.Hub.SaveMessage
ReadFrame(c) ==
    /\ rdPc[c] = "read"
    /\ ~panicked[HubOf[c]]
    /\ connOpen[c]
    /\ c \in scn.talkers
    /\ Len(store) + Cardinality(Saving) < scn.frames
    /\ \E f \in Inbound :
          /\ rdFrame' = [rdFrame EXCEPT ![c] = f]
          /\ IF Unmarshal(f).err THEN Malformed(c)
             ELSE /\ rdPc' = [rdPc EXCEPT ![c] = "save"]
                  /\ UNCHANGED rdLast
    /\ UNCHANGED <<lbVars, hubVars, svPc, wrPc, Send, sendClosed, onceDone, connOpen,
                   written, username, message, store, pubs, closes, unregs, reports,
                   hubLast, reqs, hubErrs, scn>>

\* SaveMessage returned an error: log, continue
SaveFailedPublish(c) ==
    /\ rdLast' = FrameDone(c, "unsaved")
    /\ rdPc' = [rdPc EXCEPT ![c] = "publish"]
    /\ UNCHANGED store
SaveFailed(c) ==
    /\ rdLast' = FrameDone(c, "unsaved")
    /\ rdPc' = [rdPc EXCEPT ![c] = "read"]
    /\ UNCHANGED store

\* SaveMessage returned nil: the row is inserted
Saved(c, row) ==
    /\ store' = Append(store, row)
    /\ rdPc' = [rdPc EXCEPT ![c] = "publish"]
    /\ UNCHANGED rdLast

\* c.Hub.SaveMessage(msg): the INSERT into messages
SaveMessage(c) ==
    /\ rdPc[c] = "save"
    /\ ~panicked[HubOf[c]]
    /\ \E saved \in SaveOutcomes :
          IF saved THEN Saved(c, Stamp(c, rdFrame[c], 0)) ELSE SaveFailed(c)
    /\ UNCHANGED <<lbVars, hubVars, svPc, wrPc, Send, sendClosed, onceDone, connOpen,
                   written, username, message, pubs, closes, unregs, reports, hubLast,
                   reqs,
                   rdFrame, hubErrs, scn>>

\* PublishMessage returned an error: log, next iteration
PublishFailedFatal(c) ==
    /\ rdLast' = FrameDone(c, "unpublished")
    /\ rdPc' = [rdPc EXCEPT ![c] = "unreg"]
    /\ UNCHANGED <<pubs, subQ, Send>>
PublishFailed(c) ==
    /\ rdLast' = FrameDone(c, "unpublished")
    /\ rdPc' = [rdPc EXCEPT ![c] = "read"]
    /\ UNCHANGED <<pubs, subQ, Send>>

\* the PUBLISH of the call reached the bus, which has the payload; the call
\* waits for the reply
Sent(c, m) ==
    /\ rdPc' = [rdPc EXCEPT ![c] = "sent"]
    /\ pubs' = Append(pubs, m)
    /\ PublishStep(c, m)
    /\ UNCHANGED rdLast

\* PublishMessage returned nil: next iteration
Published(c) ==
    /\ rdLast' = FrameDone(c, "published")
    /\ rdPc' = [rdPc EXCEPT ![c] = "read"]
    /\ UNCHANGED <<pubs, subQ, Send>>

\* c.Hub.PublishMessage(msgBytes) up to the reply: redisClient.Publish writes
\* the PUBLISH, which the bus takes, or fails, and then the call returns the
\* error
PublishMessage(c) ==
    /\ rdPc[c] = "publish"
    /\ ~panicked[HubOf[c]]
    /\ \E sent \in PublishOutcomes :
          IF sent THEN Sent(c, Stamp(c, rdFrame[c], Len(pubs) + 1))
          ELSE PublishFailed(c)
    /\ UNCHANGED <<lbVars, clients, runPc, lsPc, toRemove, subLive, panicked, rawMsg, svPc,
                   wrPc, sendClosed, onceDone, connOpen, written, username, message, store,
                   closes, unregs, reports, hubLast, reqs, rdFrame, hubErrs, scn>>

\* the call of PublishMessage whose PUBLISH the bus took returns: nil with
\* the reply of the bus, or an error when the reply does not come back
PublishReturn(c) ==
    /\ rdPc[c] = "sent"
    /\ ~panicked[HubOf[c]]
    /\ \E replied \in PublishOutcomes :
          IF replied THEN Published(c) ELSE PublishFailed(c)
    /\ UNCHANGED <<lbVars, clients, runPc, lsPc, toRemove, subLive, panicked, rawMsg, svPc,
                   wrPc, sendClosed, onceDone, connOpen, written, username, message, store,
                   closes, unregs, reports, hubLast, reqs, rdFrame, hubErrs, scn>>

\* ReadMessage returned an error, because the peer closed or lost the
\* connection or because the server closed it: break, then block in the
\* deferred unregister
ReadError(c) ==
    /\ rdPc[c] = "read"
    /\ ~panicked[HubOf[c]]
    /\ c \in scn.leavers \/ ~connOpen[c]
    /\ rdPc' = [rdPc EXCEPT ![c] = "unreg"]
    /\ UNCHANGED <<lbVars, hubVars, svPc, wrPc, Send, sendClosed, onceDone, connOpen,
                   written, message, histVars, username>>

\* the deferred c.Conn.Close() after UnregisterClient returned
ReadPumpClose(c) ==
    /\ rdPc[c] = "closing"
    /\ ~panicked[HubOf[c]]
    /\ rdPc' = [rdPc EXCEPT ![c] = "done"]
    /\ connOpen' = [connOpen EXCEPT ![c] = FALSE]
    /\ UNCHANGED <<lbVars, hubVars, svPc, wrPc, Send, sendClosed, onceDone, written,
                   message, histVars, username>>

\* ----------------------------------------- client/client.go Client.WritePump
\* case message, ok := <-c.Send with ok: the payload leaves the channel; the
\* loop goes on to c.Conn.WriteMessage
WriteNextLast(c) ==
    /\ wrPc[c] = "run"
    /\ ~panicked[HubOf[c]]
    /\ Send[c] # <<>>
    /\ Send' = [Send EXCEPT ![c] = SubSeq(@, 1, Len(@) - 1)]
    /\ message' = [message EXCEPT ![c] = <<Send[c][Len(Send[c])]>>]
    /\ wrPc' = [wrPc EXCEPT ![c] = "write"]
    /\ UNCHANGED <<lbVars, hubVars, svPc, rdPc, sendClosed, onceDone, connOpen, written,
                   histVars, username>>
WriteNext(c) ==
    /\ wrPc[c] = "run"
    /\ ~panicked[HubOf[c]]
    /\ Send[c] # <<>>
    /\ Send' = [Send EXCEPT ![c] = Tail(@)]
    /\ message' = [message EXCEPT ![c] = <<Head(Send[c])>>]
    /\ wrPc' = [wrPc EXCEPT ![c] = "write"]
    /\ UNCHANGED <<lbVars, hubVars, svPc, rdPc, sendClosed, onceDone, connOpen, written,
                   histVars, username>>

\* c.Conn.WriteMessage(websocket.TextMessage, message) returns: nil, and the
\* loop is back at its select, or an error, which ends the loop
WriteMessageRetry(c) ==
    /\ wrPc[c] = "write"
    /\ ~panicked[HubOf[c]]
    /\ message' = [message EXCEPT ![c] = NoMsg]
    /\ wrPc' = [wrPc EXCEPT ![c] = "run"]
    /\ \E wrote \in BOOLEAN :
          written' = [written EXCEPT ![c] = IF wrote /\ connOpen[c]
                                            THEN Append(@, Head(message[c])) ELSE @]
    /\ UNCHANGED <<lbVars, hubVars, svPc, rdPc, Send, sendClosed, onceDone, connOpen,
                   histVars, username>>
WriteMessage(c) ==
    /\ wrPc[c] = "write"
    /\ ~panicked[HubOf[c]]
    /\ message' = [message EXCEPT ![c] = NoMsg]
    /\ \E wrote \in BOOLEAN :
          IF wrote /\ connOpen[c]
          THEN /\ written' = [written EXCEPT ![c] = Append(@, Head(message[c]))]
               /\ wrPc' = [wrPc EXCEPT ![c] = "run"]
               /\ UNCHANGED connOpen
          ELSE /\ wrPc' = [wrPc EXCEPT ![c] = "done"]
               /\ connOpen' = [connOpen EXCEPT ![c] = FALSE]
               /\ UNCHANGED written
    /\ UNCHANGED <<lbVars, hubVars, svPc, rdPc, Send, sendClosed, onceDone, histVars,
                   username>>

\* case message, ok := <-c.Send with !ok: close frame, return, Conn.Close
WriteCloseEarly(c) ==
    /\ wrPc[c] = "run"
    /\ ~panicked[HubOf[c]]
    /\ sendClosed[c]
    /\ \E wrote \in BOOLEAN :
          written' = [written EXCEPT ![c] = IF wrote /\ connOpen[c]
                                            THEN Append(@, CloseFrame) ELSE @]
    /\ wrPc' = [wrPc EXCEPT ![c] = "done"]
    /\ connOpen' = [connOpen EXCEPT ![c] = FALSE]
    /\ UNCHANGED <<lbVars, hubVars, svPc, rdPc, Send, sendClosed, onceDone, message,
                   histVars, username>>
WriteCloseStay(c) ==
    /\ wrPc[c] = "run"
    /\ ~panicked[HubOf[c]]
    /\ Send[c] = <<>>
    /\ sendClosed[c]
    /\ UNCHANGED vars
WriteClose(c) ==
    /\ wrPc[c] = "run"
    /\ ~panicked[HubOf[c]]
    /\ Send[c] = <<>>
    /\ sendClosed[c]
    /\ \E wrote \in BOOLEAN :
          written' = [written EXCEPT ![c] = IF wrote /\ connOpen[c]
                                            THEN Append(@, CloseFrame) ELSE @]
    /\ wrPc' = [wrPc EXCEPT ![c] = "done"]
    /\ connOpen' = [connOpen EXCEPT ![c] = FALSE]
    /\ UNCHANGED <<lbVars, hubVars, svPc, rdPc, Send, sendClosed, onceDone, message,
                   histVars, username>>

\* case <-ticker.C: a ping that fails ends the loop
PingFailKeepOpen(c) ==
    /\ wrPc[c] = "run"
    /\ ~panicked[HubOf[c]]
    /\ wrPc' = [wrPc EXCEPT ![c] = "done"]
    /\ UNCHANGED <<lbVars, hubVars, svPc, rdPc, Send, sendClosed, onceDone, written,
                   message, histVars, username, connOpen>>
PingFail(c) ==
    /\ wrPc[c] = "run"
    /\ ~panicked[HubOf[c]]
    /\ wrPc' = [wrPc EXCEPT ![c] = "done"]
    /\ connOpen' = [connOpen EXCEPT ![c] = FALSE]
    /\ UNCHANGED <<lbVars, hubVars, svPc, rdPc, Send, sendClosed, onceDone, written,
                   message, histVars, username>>

\* ------------------------------------- hub/hub.go: the exported Hub methods
\* called directly, on clients built like those of ServeWS but without pumps
HubCall(op, c, n) == [op |-> op, c |-> c, n |-> n]
NoCall == HubCall("none", "", 0)

\* Hub.RegisterClient(c): h.register <- c meets the receive of Hub.Run
HubRegister(h, c) ==
    /\ ~panicked[h]
    /\ HubOf[c] = h
    /\ c \in scn.dialers
    /\ runPc[h] = NoReq
    /\ hubLast.n < MaxCalls
    /\ runPc' = [runPc EXCEPT ![h] = Req("register", c)]
    /\ hubLast' = HubCall("register", c, hubLast.n + 1)
    /\ reqs' = Asked("register", c)
    /\ UNCHANGED <<lbVars, clients, lsPc, toRemove, subQ, subLive, panicked, rawMsg,
                   sessVars, store, pubs, closes, unregs, reports, rdLast, scn, rdFrame,
                   hubErrs>>

\* Hub.UnregisterClient(c): h.unregister <- c meets the receive of Hub.Run
HubUnregister(h, c) ==
    /\ ~panicked[h]
    /\ HubOf[c] = h
    /\ c \in scn.dialers
    /\ runPc[h] = NoReq
    /\ hubLast.n < MaxCalls
    /\ runPc' = [runPc EXCEPT ![h] = Req("unregister", c)]
    /\ hubLast' = HubCall("unregister", c, hubLast.n + 1)
    /\ reqs' = Asked("unregister", c)
    /\ UNCHANGED <<lbVars, clients, lsPc, toRemove, subQ, subLive, panicked, rawMsg,
                   sessVars, store, pubs, closes, unregs, reports, rdLast, scn, rdFrame,
                   hubErrs>>

\* Hub.PublishMessage(msgBytes) with a payload of the caller: the bus takes
\* the PUBLISH or the call fails (what the call returns to the caller is not
\* recorded)
HubPublish(h) ==
    /\ h \in Started
    /\ ~panicked[h]
    /\ Len(pubs) < scn.frames
    /\ \E published \in BOOLEAN :
          LET m == Msg("eve", "x", h, Len(pubs) + 1) IN
          IF published
          THEN pubs' = Append(pubs, m) /\ subQ' = Publish(m)
          ELSE UNCHANGED <<pubs, subQ>>
    /\ UNCHANGED <<lbVars, clients, runPc, lsPc, toRemove, subLive, panicked, rawMsg,
                   sessVars, store, closes, unregs, reports, hubLast, reqs, rdLast, scn,
                   rdFrame, hubErrs>>

\* ---------------------------------------------------- hub/hub.go Hub.mu
\* the goroutines that take Hub.mu: Hub.Run, listenToRedis, a caller of GetLoad
Goroutines == {"run", "listen", "load"}
\* before the first call of GetLoad: no value returned
NoLoad == <<>>
Accessing(h) == {g \in Goroutines : lkPc[h][g] = "in"}

\* h.mu.Lock(): returns once the mutex is free, and holds it
MuLockUnchecked(h, g) ==
    /\ lkPc[h][g] = "out"
    /\ mu' = [mu EXCEPT ![h] = TRUE]
    /\ lkPc' = [lkPc EXCEPT ![h][g] = "in"]
MuLock(h, g) ==
    /\ lkPc[h][g] = "out"
    /\ ~mu[h]
    /\ mu' = [mu EXCEPT ![h] = TRUE]
    /\ lkPc' = [lkPc EXCEPT ![h][g] = "in"]

\* h.mu.Unlock()
MuUnlock(h, g) ==
    /\ lkPc[h][g] = "in"
    /\ mu' = [mu EXCEPT ![h] = FALSE]
    /\ lkPc' = [lkPc EXCEPT ![h][g] = "out"]

\* Hub.Run has received a request: h.mu.Lock() of its case
RunLock(h) ==
    /\ ~panicked[h]
    /\ runPc[h].at = "case"
    /\ MuLock(h, "run")
    /\ UNCHANGED <<lbVars, hubVars, sessVars, histVars, loadRead, lbLockVars>>

\* the rest of the critical section of the case: the change of the registry,
\* load := len(h.clients), h.mu.Unlock()
RunUnlock(h) ==
    /\ RunCase(h)
    /\ MuUnlock(h, "run")
    /\ UNCHANGED <<loadRead, lbLockVars>>

\* listenToRedis has received a payload: h.mu.Lock()
ListenLock(h) ==
    /\ lsPc[h] = "lock"
    /\ ~panicked[h]
    /\ MuLock(h, "listen")
    /\ UNCHANGED <<lbVars, hubVars, sessVars, histVars, loadRead, lbLockVars>>

\* the fan-out over h.clients, then h.mu.Unlock()
ListenUnlockHolding(h) ==
    /\ ListenDeliver(h)
    /\ lkPc[h]["listen"] = "in"
    /\ UNCHANGED <<mu, lkPc, loadRead, lbLockVars>>
ListenUnlock(h) ==
    /\ ListenDeliver(h)
    /\ MuUnlock(h, "listen")
    /\ UNCHANGED <<loadRead, lbLockVars>>

\* Hub.GetLoad: h.mu.Lock(); defer h.mu.Unlock()
GetLoadLock(h) ==
    /\ h \in Started
    /\ ~panicked[h]
    /\ MuLock(h, "load")
    /\ UNCHANGED <<lbVars, hubVars, sessVars, histVars, loadRead, lbLockVars>>

\* return len(h.clients), and the deferred unlock
GetLoadReturn(h) ==
    /\ ~panicked[h]
    /\ MuUnlock(h, "load")
    /\ loadRead' = [loadRead EXCEPT ![h] = <<Cardinality(clients[h])>>]
    /\ UNCHANGED <<lbVars, hubVars, sessVars, histVars, lbLockVars>>

\* ------------------------------------------- the channels of a Hub
\* the senders blocked on a channel of Hub h: a ServeWS in RegisterClient, a
\* ReadPump in its deferred UnregisterClient, listenToRedis with the first
\* client it has still to remove
Sender(op, c, by) == [op |-> op, c |-> c, by |-> by]
Waiting(h) ==
    {Sender("register", s, "serve") : s \in {x \in SessionsOf(h) : svPc[x] = "registering"}}
        \cup {Sender("unregister", s, "read") : s \in {x \in SessionsOf(h) : rdPc[x] = "unreg"}}
        \cup (IF lsPc[h] = "evict" THEN {Sender("unregister", Head(toRemove[h]), "listen")}
              ELSE {})

\* a sender that starts to wait comes last; a sender whose value Hub.Run
\* received leaves
Arrive ==
    waitQ' = [h \in Hubs |->
                LET keep == SelectSeq(waitQ[h], LAMBDA r : r \in Waiting(h)')
                    new == Waiting(h)' \ Range(waitQ[h])
                IN  IF new = {} THEN keep ELSE Append(keep, CHOOSE r \in new : TRUE)]

\* ------------------------------------- unnamed/part_002 Hub.run, getLoad
\* the single-file server: Hub.run takes h.mu itself and calls h.getLoad(),
\* which takes h.mu too, for its log lines and in updateLBLoad. lkPc[h]["run"]
\* is "in" once the case holds h.mu, "log" at the h.getLoad() of the log
\* line, "load" at the h.getLoad() of h.updateLBLoad().

\* Hub.run holds h.mu: in its case, or at the log line of the unregister case
MonoHolds(h) ==
    \/ lkPc[h]["run"] = "in"
    \/ lkPc[h]["run"] = "log" /\ runPc[h].op = "unregister"

\* case client := <-h.register: insert, h.mu.Unlock()
MonoRegister(h) ==
    /\ ~panicked[h]
    /\ lkPc[h]["run"] = "in"
    /\ runPc[h].op = "register"
    /\ clients' = [clients EXCEPT ![h] = @ \cup {runPc[h].c}]
    /\ mu' = [mu EXCEPT ![h] = FALSE]
    /\ lkPc' = [lkPc EXCEPT ![h]["run"] = "log"]
    /\ UNCHANGED <<lbVars, runPc, lsPc, toRemove, subQ, subLive, panicked, rawMsg, sessVars,
                   histVars, loadRead, lbLockVars>>

\* case client := <-h.unregister: for a client of the registry the delete
\* and the select that takes a payload of client.send or closes it, h.mu
\* still held; for any other client h.mu.Unlock()
MonoUnregister(h) ==
    /\ ~panicked[h]
    /\ lkPc[h]["run"] = "in"
    /\ runPc[h].op = "unregister"
    /\ unregs' = [unregs EXCEPT ![runPc[h].c] = @ + 1]
    /\ IF runPc[h].c \in clients[h]
       THEN /\ clients' = [clients EXCEPT ![h] = @ \ {runPc[h].c}]
            /\ IF Send[runPc[h].c] # <<>> \/ sendClosed[runPc[h].c]
               THEN /\ Send' = [Send EXCEPT ![runPc[h].c] = IF @ = <<>> THEN @ ELSE Tail(@)]
                    /\ UNCHANGED <<closes, sendClosed>>
               ELSE /\ closes' = [closes EXCEPT ![runPc[h].c] = @ + 1]
                    /\ sendClosed' = [sendClosed EXCEPT ![runPc[h].c] = TRUE]
                    /\ UNCHANGED Send
            /\ lkPc' = [lkPc EXCEPT ![h]["run"] = "log"]
            /\ UNCHANGED mu
       ELSE /\ mu' = [mu EXCEPT ![h] = FALSE]
            /\ lkPc' = [lkPc EXCEPT ![h]["run"] = "load"]
            /\ UNCHANGED <<clients, Send, closes, sendClosed>>
    /\ UNCHANGED <<lbVars, runPc, lsPc, toRemove, subQ, subLive, panicked, rawMsg, svPc,
                   rdPc, wrPc, onceDone, connOpen, written, username, message, store, pubs,
                   reports, hubLast, reqs, rdLast, rdFrame, hubErrs, scn, loadRead,
                   lbLockVars>>

\* h.getLoad() of a log line: h.mu.Lock() returns once h.mu is free; the
\* unregister case then goes on to its h.mu.Unlock()
MonoGetLoad(h) ==
    /\ ~panicked[h]
    /\ lkPc[h]["run"] = "log"
    /\ ~mu[h]
    /\ loadRead' = [loadRead EXCEPT ![h] = <<Cardinality(clients[h])>>]
    /\ mu' = [mu EXCEPT ![h] = FALSE]
    /\ lkPc' = [lkPc EXCEPT ![h]["run"] = "load"]
    /\ UNCHANGED <<lbVars, hubVars, sessVars, histVars, lbLockVars>>

\* h.updateLBLoad() up to its http.Post: load := h.getLoad(), which takes
\* h.mu, reads len(h.clients) and releases h.mu
MonoUpdateLBLoad(h) ==
    /\ ~panicked[h]
    /\ lkPc[h]["run"] = "load"
    /\ ~mu[h]
    /\ loadRead' = [loadRead EXCEPT ![h] = <<Cardinality(clients[h])>>]
    /\ runPc' = Loaded(h, Cardinality(clients[h]))
    /\ lkPc' = [lkPc EXCEPT ![h]["run"] = "out"]
    /\ UNCHANGED <<lbVars, clients, lsPc, toRemove, subQ, subLive, panicked, rawMsg,
                   sessVars, histVars, mu, lbLockVars>>

\* http.Post of h.updateLBLoad(): the POST /update reaches the load balancer,
\* or the request fails
MonoPost(h) ==
    /\ lkPc[h]["run"] = "out"
    /\ RunReport(h)

\* http.Post of h.updateLBLoad() returns; Hub.run is back at its select
MonoReturn(h) ==
    /\ lkPc[h]["run"] = "out"
    /\ RunReturn(h)

\* ======================================================== specifications
InitServers ==
    /\ scn \in Environments
    /\ username = [s \in Sessions |-> NoQuery]
    /\ rdFrame = [s \in Sessions |-> NoInbound]
    /\ hubErrs = [h \in Hubs |-> {}]
    /\ mu = [h \in Hubs |-> FALSE]
    /\ lkPc = [h \in Hubs |-> [g \in Goroutines |-> "out"]]
    /\ loadRead = [h \in Hubs |-> NoLoad]
    /\ lbMu = NoHandler
    /\ lbPc = [r \in Handlers |-> Idle]
    /\ waitQ = [h \in Hubs |-> <<>>]
    /\ clients = [h \in Hubs |-> {}]
    /\ runPc = [h \in Hubs |-> IF h \in Started THEN NoRun ELSE NoReq]
    /\ lsPc = [h \in Hubs |-> IF h \in Started THEN "idle" ELSE "done"]
    /\ rawMsg = [h \in Hubs |-> NoMsg]
    /\ toRemove = [h \in Hubs |-> <<>>]
    /\ subQ = [h \in Hubs |-> <<>>]
    /\ subLive = [h \in Hubs |-> FALSE]
    /\ panicked = [h \in Hubs |-> FALSE]
    /\ svPc = [s \in Sessions |-> "none"]
    /\ rdPc = [s \in Sessions |-> "idle"]
    /\ wrPc = [s \in Sessions |-> "idle"]
    /\ message = [s \in Sessions |-> NoMsg]
    /\ Send = [s \in Sessions |-> <<>>]
    /\ sendClosed = [s \in Sessions |-> FALSE]
    /\ onceDone = [s \in Sessions |-> FALSE]
    /\ connOpen = [s \in Sessions |-> FALSE]
    /\ written = [s \in Sessions |-> <<>>]
    /\ store = <<>>
    /\ pubs = <<>>
    /\ closes = [s \in Sessions |-> 0]
    /\ unregs = [s \in Sessions |-> 0]
    /\ hubLast = NoCall
    /\ reqs = [s \in Sessions |-> [net |-> 0, last |-> "none"]]
    /\ rdLast = NoFrame

\* a process that is started has run lbClient.Register() and hub.New and has
\* launched `go hub.Run()`
InitProcs ==
    /\ InitServers
    /\ reports = [h \in Hubs |-> NoReport]
    /\ lbServers = [h \in Started |-> 0]
    /\ lbLast = NoAnswer

Init == InitProcs /\ scn \in Scenarios

Next ==
    \/ \E s \in Sessions : ServeWS(s) /\ UNCHANGED lockVars
    \/ \E s \in Sessions : ServeWSStart(s) /\ UNCHANGED lockVars
    \/ \E h \in Hubs, s \in Sessions : RunRegister(h, s) /\ UNCHANGED lockVars
    \/ \E h \in Hubs, s \in Sessions : RunUnregisterRead(h, s) /\ UNCHANGED lockVars
    \/ \E h \in Hubs : RunUnregisterEvict(h) /\ UNCHANGED lockVars
    \/ \E h \in Hubs : RunCase(h) /\ UNCHANGED lockVars
    \/ \E h \in Hubs : RunReport(h) /\ UNCHANGED lockVars
    \/ \E h \in Hubs : RunReturn(h) /\ UNCHANGED lockVars
    \/ \E h \in Hubs : RunStart(h) /\ UNCHANGED lockVars
    \/ \E h \in Hubs : ListenSubscribe(h) /\ UNCHANGED lockVars
    \/ \E h \in Hubs : ListenRecv(h) /\ UNCHANGED lockVars
    \/ \E h \in Hubs : ListenDeliver(h) /\ UNCHANGED lockVars
    \/ \E h \in Hubs : ListenClosed(h) /\ UNCHANGED lockVars
    \/ \E h \in Hubs : SubDrop(h) /\ UNCHANGED lockVars
    \/ \E s \in Sessions : ReadFrame(s) /\ UNCHANGED lockVars
    \/ \E s \in Sessions : SaveMessage(s) /\ UNCHANGED lockVars
    \/ \E s \in Sessions : PublishMessage(s) /\ UNCHANGED lockVars
    \/ \E s \in Sessions : PublishReturn(s) /\ UNCHANGED lockVars
    \/ \E s \in Sessions : ReadError(s) /\ UNCHANGED lockVars
    \/ \E s \in Sessions : ReadPumpClose(s) /\ UNCHANGED lockVars
    \/ \E s \in Sessions : WriteNext(s) /\ UNCHANGED lockVars
    \/ \E s \in Sessions : WriteMessage(s) /\ UNCHANGED lockVars
    \/ \E s \in Sessions : WriteClose(s) /\ UNCHANGED lockVars
    \/ \E s \in Sessions : PingFail(s) /\ UNCHANGED lockVars

Spec == Init /\ [][Next]_vars

\* the load balancer alone: its handlers run concurrently, each on a request
\* of its own
InitLB ==
    /\ InitServers
    /\ reports = [h \in Hubs |-> NoReport]
    /\ scn = OneHub
    /\ lbServers = <<>>
    /\ lbLast = NoAnswer

NextLB ==
    \E r \in Handlers :
        \/ LBAccept(r) /\ UNCHANGED <<hubVars, sessVars, histVars, hubLockVars, waitQ>>
        \/ LBReject(r) /\ UNCHANGED <<hubVars, sessVars, histVars, hubLockVars, waitQ>>
        \/ LBLock(r) /\ UNCHANGED <<hubVars, sessVars, histVars, hubLockVars, waitQ>>
        \/ LBWrite(r) /\ UNCHANGED <<hubVars, sessVars, histVars, hubLockVars, waitQ>>
        \/ LBRespond(r) /\ UNCHANGED <<hubVars, sessVars, histVars, hubLockVars, waitQ>>
        \/ LBGetRespond(r) /\ UNCHANGED <<hubVars, sessVars, histVars, hubLockVars, waitQ>>
        \/ LBReturn(r) /\ UNCHANGED <<hubVars, sessVars, histVars, hubLockVars, waitQ>>

SpecLB == InitLB /\ [][NextLB]_vars

\* one Hub whose methods are called directly, in any order
InitHub == InitProcs /\ scn = Slow

NextHub ==
    \/ \E h \in Hubs, s \in Sessions : HubRegister(h, s) /\ UNCHANGED lockVars
    \/ \E h \in Hubs, s \in Sessions : HubUnregister(h, s) /\ UNCHANGED lockVars
    \/ \E h \in Hubs : HubPublish(h) /\ UNCHANGED lockVars
    \/ \E h \in Hubs : RunStart(h) /\ UNCHANGED lockVars
    \/ \E h \in Hubs : ListenSubscribe(h) /\ UNCHANGED lockVars
    \/ \E h \in Hubs : ListenRecv(h) /\ UNCHANGED lockVars
    \/ \E h \in Hubs : ListenDeliver(h) /\ UNCHANGED lockVars
    \/ \E h \in Hubs : RunUnregisterEvict(h) /\ UNCHANGED lockVars
    \/ \E h \in Hubs : RunCase(h) /\ UNCHANGED lockVars
    \/ \E h \in Hubs : RunReport(h) /\ UNCHANGED lockVars
    \/ \E h \in Hubs : RunReturn(h) /\ UNCHANGED lockVars

SpecHub == InitHub /\ [][NextHub]_vars

\* the steps that need nothing from outside the servers: a ready goroutine,
\* a select with a ready case, an http.Post that returns, a write that returns,
\* a read on a connection the server closed
RunStep(h) ==
    \/ RunStart(h)
    \/ \E s \in Sessions : RunRegister(h, s)
    \/ \E s \in Sessions : RunUnregisterRead(h, s)
    \/ RunUnregisterEvict(h)
    \/ RunCase(h)
    \/ RunReport(h)
    \/ RunReturn(h)

ListenStep(h) == ListenSubscribe(h) \/ ListenRecv(h) \/ ListenDeliver(h)

Progress ==
    \/ \E h \in Hubs : (RunStep(h) \/ ListenStep(h)) /\ UNCHANGED lockVars
    \/ \E s \in Sessions :
          (ServeWSStart(s) \/ WriteNext(s) \/ WriteMessage(s) \/ WriteClose(s))
              /\ UNCHANGED lockVars
    \/ \E s \in Sessions : (ReadPumpClose(s) \/ (ReadError(s) /\ ~connOpen[s])) /\ UNCHANGED lockVars

\* a call of a read loop on the store or on the bus returns, with a result or
\* with an error
ReadPumpCall(s) ==
    (SaveMessage(s) \/ PublishMessage(s) \/ PublishReturn(s)) /\ UNCHANGED lockVars

\* the runtime keeps running while a goroutine can run, and no read loop
\* stays in a call for ever
Fairness == WF_vars(Progress) /\ \A s \in Sessions : WF_vars(ReadPumpCall(s))

\* two processes, or one process whose subscription may drop
InitFair == InitProcs /\ scn \in {TwoHubs, Flaky}

FairSpec == InitFair /\ [][Next]_vars /\ Fairness

\* one process with one client
InitSolo == Init /\ scn = Flaky

FairSolo == InitSolo /\ [][Next]_vars /\ Fairness

\* one client, whose peer may leave or keeps the connection
InitKept == InitProcs /\ scn \in {Flaky, Kept}

FairKept == InitKept /\ [][Next]_vars /\ Fairness

\* the goroutines of the Hub alone: Hub.Run and listenToRedis; no write loop
\* is assumed to take anything from its queue
HubProgress ==
    \E h \in Hubs : (RunStep(h) \/ ListenStep(h)) /\ UNCHANGED lockVars

\* two clients of one process, the first one talking, under a scheduler that
\* only promises to run the goroutines of the Hub
InitDuo == InitProcs /\ scn = Slow

\* the steps of the servers while the bus keeps every subscription
NextSteady ==
    \/ \E s \in Sessions : ServeWS(s) /\ UNCHANGED lockVars
    \/ \E s \in Sessions : ServeWSStart(s) /\ UNCHANGED lockVars
    \/ \E h \in Hubs, s \in Sessions : RunRegister(h, s) /\ UNCHANGED lockVars
    \/ \E h \in Hubs, s \in Sessions : RunUnregisterRead(h, s) /\ UNCHANGED lockVars
    \/ \E h \in Hubs : RunUnregisterEvict(h) /\ UNCHANGED lockVars
    \/ \E h \in Hubs : RunCase(h) /\ UNCHANGED lockVars
    \/ \E h \in Hubs : RunReport(h) /\ UNCHANGED lockVars
    \/ \E h \in Hubs : RunReturn(h) /\ UNCHANGED lockVars
    \/ \E h \in Hubs : RunStart(h) /\ UNCHANGED lockVars
    \/ \E h \in Hubs : ListenSubscribe(h) /\ UNCHANGED lockVars
    \/ \E h \in Hubs : ListenRecv(h) /\ UNCHANGED lockVars
    \/ \E h \in Hubs : ListenDeliver(h) /\ UNCHANGED lockVars
    \/ \E s \in Sessions : ReadFrame(s) /\ UNCHANGED lockVars
    \/ \E s \in Sessions : SaveMessage(s) /\ UNCHANGED lockVars
    \/ \E s \in Sessions : PublishMessage(s) /\ UNCHANGED lockVars
    \/ \E s \in Sessions : PublishReturn(s) /\ UNCHANGED lockVars
    \/ \E s \in Sessions : ReadError(s) /\ UNCHANGED lockVars
    \/ \E s \in Sessions : ReadPumpClose(s) /\ UNCHANGED lockVars
    \/ \E s \in Sessions : WriteNext(s) /\ UNCHANGED lockVars
    \/ \E s \in Sessions : WriteMessage(s) /\ UNCHANGED lockVars
    \/ \E s \in Sessions : WriteClose(s) /\ UNCHANGED lockVars
    \/ \E s \in Sessions : PingFail(s) /\ UNCHANGED lockVars

FairHub == InitDuo /\ [][NextSteady]_vars /\ WF_vars(HubProgress)

\* one client whose frames carry any content, any username field and any id
\* field
InitSpoof == InitProcs /\ scn = Spoof

SpecSpoof == InitSpoof /\ [][Next]_vars

\* one Hub whose methods are called directly, each goroutine taking Hub.mu
\* around its access to the registry
NextLock ==
    \/ \E h \in Hubs, s \in Sessions : HubRegister(h, s) /\ UNCHANGED lockVars
    \/ \E h \in Hubs, s \in Sessions : HubUnregister(h, s) /\ UNCHANGED lockVars
    \/ \E h \in Hubs : HubPublish(h) /\ UNCHANGED lockVars
    \/ \E h \in Hubs : RunUnregisterEvict(h) /\ UNCHANGED lockVars
    \/ \E h \in Hubs : RunLock(h) /\ UNCHANGED waitQ
    \/ \E h \in Hubs : RunUnlock(h) /\ UNCHANGED waitQ
    \/ \E h \in Hubs : RunReport(h) /\ UNCHANGED lockVars
    \/ \E h \in Hubs : RunReturn(h) /\ UNCHANGED lockVars
    \/ \E h \in Hubs : RunStart(h) /\ UNCHANGED lockVars
    \/ \E h \in Hubs : ListenSubscribe(h) /\ UNCHANGED lockVars
    \/ \E h \in Hubs : ListenRecv(h) /\ UNCHANGED lockVars
    \/ \E h \in Hubs : ListenLock(h) /\ UNCHANGED waitQ
    \/ \E h \in Hubs : ListenUnlock(h) /\ UNCHANGED waitQ
    \/ \E h \in Hubs : GetLoadLock(h) /\ UNCHANGED waitQ
    \/ \E h \in Hubs : GetLoadReturn(h) /\ UNCHANGED waitQ

SpecLock == InitHub /\ [][NextLock]_vars

\* the servers with every goroutine of a Hub taking Hub.mu in a step of its
\* own and the senders on the channels of the Hub kept in their order, while
\* the bus keeps every subscription
NextFine ==
    \/ \E s \in Sessions : ServeWS(s) /\ Arrive /\ UNCHANGED <<hubLockVars, lbLockVars>>
    \/ \E s \in Sessions : ServeWSStart(s) /\ Arrive /\ UNCHANGED <<hubLockVars, lbLockVars>>
    \/ \E h \in Hubs, s \in Sessions :
          RunRegister(h, s) /\ Arrive /\ UNCHANGED <<hubLockVars, lbLockVars>>
    \/ \E h \in Hubs, s \in Sessions :
          RunUnregisterRead(h, s) /\ Arrive /\ UNCHANGED <<hubLockVars, lbLockVars>>
    \/ \E h \in Hubs : RunUnregisterEvict(h) /\ Arrive /\ UNCHANGED <<hubLockVars, lbLockVars>>
    \/ \E h \in Hubs : RunLock(h) /\ Arrive
    \/ \E h \in Hubs : RunUnlock(h) /\ Arrive
    \/ \E h \in Hubs : RunReport(h) /\ Arrive /\ UNCHANGED <<hubLockVars, lbLockVars>>
    \/ \E h \in Hubs : RunReturn(h) /\ Arrive /\ UNCHANGED <<hubLockVars, lbLockVars>>
    \/ \E h \in Hubs : RunStart(h) /\ Arrive /\ UNCHANGED <<hubLockVars, lbLockVars>>
    \/ \E h \in Hubs : ListenSubscribe(h) /\ Arrive /\ UNCHANGED <<hubLockVars, lbLockVars>>
    \/ \E h \in Hubs : ListenRecv(h) /\ Arrive /\ UNCHANGED <<hubLockVars, lbLockVars>>
    \/ \E h \in Hubs : ListenLock(h) /\ Arrive
    \/ \E h \in Hubs : ListenUnlock(h) /\ Arrive
    \/ \E s \in Sessions : ReadFrame(s) /\ Arrive /\ UNCHANGED <<hubLockVars, lbLockVars>>
    \/ \E s \in Sessions : SaveMessage(s) /\ Arrive /\ UNCHANGED <<hubLockVars, lbLockVars>>
    \/ \E s \in Sessions : PublishMessage(s) /\ Arrive /\ UNCHANGED <<hubLockVars, lbLockVars>>
    \/ \E s \in Sessions : PublishReturn(s) /\ Arrive /\ UNCHANGED <<hubLockVars, lbLockVars>>
    \/ \E s \in Sessions : ReadError(s) /\ Arrive /\ UNCHANGED <<hubLockVars, lbLockVars>>
    \/ \E s \in Sessions : ReadPumpClose(s) /\ Arrive /\ UNCHANGED <<hubLockVars, lbLockVars>>
    \/ \E s \in Sessions : WriteNext(s) /\ Arrive /\ UNCHANGED <<hubLockVars, lbLockVars>>
    \/ \E s \in Sessions : WriteMessage(s) /\ Arrive /\ UNCHANGED <<hubLockVars, lbLockVars>>
    \/ \E s \in Sessions : WriteClose(s) /\ Arrive /\ UNCHANGED <<hubLockVars, lbLockVars>>
    \/ \E s \in Sessions : PingFail(s) /\ Arrive /\ UNCHANGED <<hubLockVars, lbLockVars>>

\* two clients of one process
SpecFine == InitDuo /\ [][NextFine]_vars

\* the scheduler runs the goroutines of the Hub: Hub.Run and listenToRedis
FineProgress ==
    \E h \in Hubs :
        \/ (\E s \in Sessions : RunRegister(h, s) \/ RunUnregisterRead(h, s))
              /\ Arrive /\ UNCHANGED <<hubLockVars, lbLockVars>>
        \/ (RunStart(h) \/ RunUnregisterEvict(h) \/ RunReport(h) \/ RunReturn(h)
                \/ ListenSubscribe(h) \/ ListenRecv(h))
              /\ Arrive /\ UNCHANGED <<hubLockVars, lbLockVars>>
        \/ (RunLock(h) \/ RunUnlock(h) \/ ListenLock(h) \/ ListenUnlock(h)) /\ Arrive

\* one client of one process, the goroutines of the Hub running
FairFine == InitSolo /\ [][NextFine]_vars /\ WF_vars(FineProgress)

\* the Hub of the single-file server, its methods called directly
NextMono ==
    \/ \E h \in Hubs, s \in Sessions : HubRegister(h, s) /\ UNCHANGED lockVars
    \/ \E h \in Hubs, s \in Sessions : HubUnregister(h, s) /\ UNCHANGED lockVars
    \/ \E h \in Hubs : HubPublish(h) /\ UNCHANGED lockVars
    \/ \E h \in Hubs : RunUnregisterEvict(h) /\ UNCHANGED lockVars
    \/ \E h \in Hubs : RunLock(h) /\ UNCHANGED waitQ
    \/ \E h \in Hubs : MonoRegister(h) /\ UNCHANGED waitQ
    \/ \E h \in Hubs : MonoUnregister(h) /\ UNCHANGED waitQ
    \/ \E h \in Hubs : MonoGetLoad(h) /\ UNCHANGED waitQ
    \/ \E h \in Hubs : MonoUpdateLBLoad(h) /\ UNCHANGED waitQ
    \/ \E h \in Hubs : MonoPost(h) /\ UNCHANGED lockVars
    \/ \E h \in Hubs : MonoReturn(h) /\ UNCHANGED lockVars
    \/ \E h \in Hubs : RunStart(h) /\ UNCHANGED lockVars
    \/ \E h \in Hubs : ListenSubscribe(h) /\ UNCHANGED lockVars
    \/ \E h \in Hubs : ListenRecv(h) /\ UNCHANGED lockVars
    \/ \E h \in Hubs : ListenLock(h) /\ UNCHANGED waitQ
    \/ \E h \in Hubs : ListenUnlock(h) /\ UNCHANGED waitQ

SpecMono == InitHub /\ [][NextMono]_vars

\* ================================================================ claims
Seqs(q) == {q[i].seq : i \in DOMAIN q}
Created(s) == svPc[s] \in {"registering", "registered", "started"}
Admitted(s) ==
    /\ svPc[s] \in {"registered", "started"}
    /\ runPc[HubOf[s]] # Req("register", s)
\* a step in which listenToRedis of h fans out the payload it holds
DeliverStep(h) ==
    /\ lsPc[h] = "lock"
    /\ rawMsg'[h] # rawMsg[h] \/ panicked'[h] # panicked[h]

\* C1: every message a session of process hA published, from the moment it is
\* in the subscription of process hB while a session is registered on hB, is
\* eventually enqueued for and written to the transport of that session,
\* unless the session leaves the registry of hB (a session whose queue is full
\* at the delivery is evicted).
InFlight(h, k, origin) ==
    \E i \in DOMAIN subQ[h] : subQ[h][i].seq = k /\ subQ[h][i].Server = origin

C1_CrossProcessFanOut ==
    [](\A k \in 1 .. MaxFrames : \A s \in SessionsOf("hB") :
          (InFlight("hB", k, "hA") /\ s \in clients["hB"])
              => <>(k \in Seqs(written[s]) \/ s \notin clients["hB"]))

C1_Witness ==
    /\ "b1" \in clients["hB"]
    /\ \E i \in DOMAIN written["b1"] : written["b1"][i].Server = "hA"

\* C2: a delivery to a hub appends the message exactly once to the queue of
\* every registered session with room, leaves the queue of a registered session
\* without room as it is and schedules that session for unregistration, and
\* touches the queue of no other session.
C2_LocalDelivery ==
    [][\A h \in Hubs : DeliverStep(h) =>
          \A s \in Sessions :
              IF s \in clients[h]
              THEN IF Len(Send[s]) < SendCap
                   THEN Send'[s] = Append(Send[s], Head(rawMsg[h]))
                        /\ s \notin Range(toRemove'[h])
                   ELSE Send'[s] = Send[s] /\ s \in Range(toRemove'[h])
              ELSE Send'[s] = Send[s]]_vars

C2_Witness ==
    /\ toRemove["hA"] = <<"a1">>
    /\ Len(Send["a2"]) = 1
    /\ Len(written["a2"]) = 1

\* C3: a session that a delivery found with a full queue is eventually out of
\* the registry with its transport closed.
C3_SlowConsumerEviction ==
    \A s \in Sessions :
        (s \in Range(toRemove[HubOf[s]]))
            ~> (s \notin clients[HubOf[s]] /\ ~connOpen[s] /\ wrPc[s] = "done")

C3_Witness ==
    \E s \in Sessions :
        /\ unregs[s] >= 1
        /\ rdPc[s] = "read"
        /\ CloseFrame \in Range(written[s])
        /\ ~connOpen[s]

\* C4: however many unregister requests the hub receives for a session, its
\* queue is closed exactly once and nothing panics; a request after the first
\* changes neither the registry nor any queue.
C4_IdempotentTeardown ==
    /\ [](\A s \in Sessions :
            /\ ~panicked[HubOf[s]]
            /\ closes[s] <= 1
            /\ (unregs[s] >= 1 => closes[s] = 1 /\ sendClosed[s]))
    /\ [][\A s \in Sessions :
            (unregs[s] >= 1 /\ unregs'[s] > unregs[s]) =>
                /\ clients' = clients
                /\ sendClosed' = sendClosed
                /\ closes' = closes
                /\ Send' = Send]_vars

C4_Witness ==
    \E s \in Sessions : unregs[s] = 2 /\ closes[s] = 1 /\ sendClosed[s]

\* C5 as stated: once Hub.Run has processed every request it received, the
\* registry of a hub holds exactly the sessions for which it received an odd
\* number of registers net of the unregisters that found the session
\* registered.
C5_Original ==
    \A h \in Hubs : runPc[h] = NoReq =>
        clients[h] = {s \in SessionsOf(h) : reqs[s].net % 2 = 1}

\* C5 amended: Hub.Run applies the requests one at a time in the order in
\* which it received them, a register putting the session in the registry
\* (a register of a registered session changes nothing), an unregister taking
\* it out (an unregister of an absent session changes nothing), and nothing
\* else changes the registry; so once Hub.Run has processed every request it
\* received, the registry of a hub holds exactly the sessions whose last
\* request was a register, however many registers came before.
C5_RegistryConsistency ==
    /\ [](\A h \in Hubs : runPc[h] = NoReq =>
            clients[h] = {s \in SessionsOf(h) : reqs[s].last = "register"})
    /\ [][\A h \in Hubs :
            clients'[h] = IF runPc[h].at = "case" /\ runPc'[h] # runPc[h]
                          THEN IF runPc[h].op = "register"
                               THEN clients[h] \cup {runPc[h].c}
                               ELSE clients[h] \ {runPc[h].c}
                          ELSE clients[h]]_vars

C5_Witness ==
    /\ runPc["hA"] = NoReq
    /\ hubLast.n = 4
    /\ reqs["a1"] = [net |-> 2, last |-> "register"]
    /\ reqs["a2"] = [net |-> 0, last |-> "unregister"]
    /\ clients["hA"] = {"a1"}

\* C6 as stated: a session that exists is in the registry iff its queue is
\* not closed.
C6_Original ==
    \A s \in Sessions :
        Created(s) => (s \in clients[HubOf[s]] <=> ~sendClosed[s])

\* C6 amended: a session in the registry has an open queue, and from the
\* moment the hub has processed its register a session is in the registry iff
\* its queue is not closed.
C6_RegistryQueue ==
    \A s \in Sessions :
        /\ s \in clients[HubOf[s]] => ~sendClosed[s]
        /\ Admitted(s) => (s \in clients[HubOf[s]] <=> ~sendClosed[s])

C6_Witness ==
    /\ "a1" \notin clients["hA"] /\ sendClosed["a1"]
    /\ "a2" \in clients["hA"] /\ ~sendClosed["a2"]

\* the steps of a handler of the load balancer: it writes the answer of a
\* GET /get, it writes the answer of a POST, it writes the entry of its body
GetAnswered(r) ==
    lbPc[r].op = "get" /\ lbPc[r].at = "locked" /\ lbPc'[r].at = "responded"
PostAnswered(r) ==
    lbPc[r].op \in {"register", "update"} /\ lbPc[r].at # "responded"
        /\ lbPc'[r].at = "responded"
Applied(r) == lbPc[r].at = "locked" /\ lbPc'[r].at = "unlocked"
Entry(tab, a) == IF a \in DOMAIN tab THEN <<tab[a]>> ELSE <<>>

\* C7: a GET /get answered on a non-empty table is answered 200 with an entry
\* that is in the table at that moment, with the load stored for it, which is
\* at most the load of every entry.
C7_LeastLoad ==
    [][\A r \in Handlers : (GetAnswered(r) /\ DOMAIN lbServers # {}) =>
          /\ lbLast'.status = 200
          /\ lbLast'.Address \in DOMAIN lbServers
          /\ lbLast'.load = lbServers[lbLast'.Address]
          /\ \A a \in DOMAIN lbServers : lbLast'.load <= lbServers[a]]_vars

C7_Witness ==
    /\ lbLast.op = "get"
    /\ lbLast.status = 200
    /\ \E r \in Handlers : lbPc[r].op = "get" /\ lbPc[r].at = "responded"
    /\ \E b \in DOMAIN lbServers : lbServers[b] > lbLast.load

\* C8: a GET /get is answered 503 exactly when the table is empty at that
\* moment, and otherwise 200 with an address of the table.
C8_EmptyTable ==
    [][\A r \in Handlers : GetAnswered(r) =>
          /\ lbLast'.status \in {200, 503}
          /\ lbLast'.status = 503 <=> DOMAIN lbServers = {}
          /\ lbLast'.status = 200 => lbLast'.Address \in DOMAIN lbServers]_vars

C8_Witness ==
    /\ lbLast.op = "get" /\ lbLast.status = 503
    /\ \E r \in Handlers : lbPc[r].op = "get" /\ lbPc[r].at = "responded"

\* C9: the handler of a register or update request that writes the table
\* sets the entry of the address of its body to the load of its body and
\* leaves every other entry as it is, whatever the entry held; an entry
\* changes or appears only by such a write for its address. So each entry
\* holds the load of the request for its address that took the lock last.
C9_LastWriteWins ==
    /\ [][\A r \in Handlers : Applied(r) =>
             /\ Entry(lbServers', lbPc[r].body.address) = <<lbPc[r].body.load>>
             /\ \A a \in LBAddrs \ {lbPc[r].body.address} :
                   Entry(lbServers', a) = Entry(lbServers, a)]_vars
    /\ [][\A a \in LBAddrs :
             Entry(lbServers', a) # Entry(lbServers, a) =>
                 \E r \in Handlers :
                     /\ Applied(r)
                     /\ lbPc[r].op \in {"register", "update"}
                     /\ lbPc[r].body.ok
                     /\ lbPc[r].body.address = a]_vars

C9_Witness ==
    \E r \in Handlers :
        /\ lbPc[r].op = "update" /\ lbPc[r].at = "unlocked"
        /\ lbPc[r].body.load = 0
        /\ lbLast = LBAnswer("register", 200, lbPc[r].body.address, 1)
        /\ lbServers[lbPc[r].body.address] = 0
        /\ \E a \in DOMAIN lbServers : a # lbPc[r].body.address /\ lbServers[a] = 1

\* C10: a publish enqueues nothing by itself and hands exactly one copy to
\* every live subscription, the publisher's own included; the listener of a
\* hub takes the copy off its subscription and its delivery of the hub's own
\* message appends it to the queue of every registered session with room; no
\* session ever holds or writes the same publish twice.
Held(s) == written[s] \o message[s] \o Send[s]

C10_SingleDelivery ==
    /\ [](\A s \in Sessions : \A i, j \in DOMAIN Held(s) :
            Held(s)[i].seq = Held(s)[j].seq => i = j)
    /\ [][Len(pubs') > Len(pubs) =>
            /\ Send' = Send
            /\ \A h \in Hubs :
                  subQ'[h] = IF subLive[h] THEN Append(subQ[h], pubs'[Len(pubs')])
                             ELSE subQ[h]]_vars
    /\ [][\A h \in Hubs : (lsPc[h] = "recv" /\ lsPc'[h] = "lock") =>
            /\ rawMsg'[h] = <<Head(subQ[h])>>
            /\ subQ'[h] = Tail(subQ[h])]_vars
    /\ [][\A h \in Hubs :
            (DeliverStep(h) /\ Head(rawMsg[h]).Server = h) =>
                \A s \in clients[h] :
                    Len(Send[s]) < SendCap => Send'[s] = Append(Send[s], Head(rawMsg[h]))]_vars

C10_Witness ==
    /\ \E i \in DOMAIN written["a1"] : written["a1"][i].Username = "ann"
    /\ \E i \in DOMAIN written["a2"] : written["a2"][i].Username = "ann"

\* C11: every register the hub processes and every unregister that removes a
\* session leaves Hub.Run with one load report to issue, whose value is the
\* size of the registry right after the change; Hub.Run issues that report,
\* once and with that value, before it receives any later request, and the
\* registry does not change in between; so the reports issued and the one
\* to issue number the changes made.
RegistryStep(h) ==
    \/ \E s \in SessionsOf(h) : ~Admitted(s) /\ Admitted(s)'
    \/ clients'[h] # clients[h]

C11_LoadReport ==
    /\ [][\A h \in Hubs :
            /\ RegistryStep(h) =>
                  /\ runPc[h].at = "case"
                  /\ runPc'[h].at = "report"
                  /\ runPc'[h].load = Cardinality(clients'[h])
                  /\ reports'[h] = reports[h]
            /\ reports'[h] # reports[h] =>
                  /\ runPc[h].at = "report"
                  /\ runPc'[h].at = "posted"
                  /\ reports'[h].n = reports[h].n + 1
                  /\ reports'[h].load = runPc[h].load
            /\ runPc[h].at = "report" =>
                  /\ clients'[h] = clients[h]
                  /\ \A s \in SessionsOf(h) : unregs'[s] = unregs[s]
                  /\ runPc'[h] # runPc[h] => reports'[h].n = reports[h].n + 1]_vars
    /\ [](\A h \in Hubs :
            /\ runPc[h].at = "report" => runPc[h].load = Cardinality(clients[h])
            /\ runPc[h].at # "report" => reports[h].load = Cardinality(clients[h])
            /\ reports[h].n + (IF runPc[h].at = "report" THEN 1 ELSE 0)
                  = Cardinality({s \in SessionsOf(h) : Admitted(s)})
                    + Cardinality({s \in SessionsOf(h) : unregs[s] > 0}))

C11_Witness ==
    /\ reports["hA"].n = 3
    /\ reports["hA"].load = 1
    /\ clients["hA"] = {"a2"}
    /\ unregs["a1"] = 2

\* C12: whenever the last load report of a hub reached the load balancer and
\* the hub has no report to issue, the entry of the hub's address is the size
\* of its registry, so that once the registry stops changing with its last
\* report delivered the entry equals the size from then on; an entry changes
\* only by the report Hub.Run issues for the newest size, never by an older
\* one.
C12_EventuallyConsistentLoad ==
    /\ [](\A h \in DOMAIN lbServers :
            (reports[h].sent /\ runPc[h].at # "report")
                => lbServers[h] = Cardinality(clients[h]))
    /\ [][\A h \in Hubs :
            Entry(lbServers', h) # Entry(lbServers, h) =>
                /\ runPc[h].at = "report"
                /\ reports'[h].n = reports[h].n + 1
                /\ Entry(lbServers', h) = <<reports'[h].load>>
                /\ Entry(lbServers', h) = <<Cardinality(clients'[h])>>]_vars
    /\ \A h \in Hubs : \A n \in 0 .. Cardinality(SessionsOf(h)) :
            <>[](h \in DOMAIN lbServers /\ reports[h].sent /\ Cardinality(clients[h]) = n)
                => <>[](Entry(lbServers, h) = <<n>>)

C12_Witness ==
    /\ reports["hA"].n = 2 /\ reports["hA"].sent
    /\ runPc["hA"] = NoReq
    /\ lbServers["hA"] = 0
    /\ clients["hB"] = {"b1"}
    /\ lbServers["hB"] = 1

\* C13: a register request for a session that is in the registry leaves the
\* registry of every hub and every queue as they are; a register request for
\* a session that is not in the registry always puts it there, and changes
\* nothing else of the registry and no queue.
RegisterCall(c) ==
    /\ runPc[HubOf[c]] = Req("register", c)
    /\ runPc'[HubOf[c]] # runPc[HubOf[c]]

C13_DuplicateRegister ==
    [][\A c \in Sessions : RegisterCall(c) =>
          /\ c \in clients'[HubOf[c]]
          /\ clients' = [clients EXCEPT ![HubOf[c]] = @ \cup {c}]
          /\ c \in clients[HubOf[c]] =>
                /\ clients' = clients
                /\ Cardinality(clients'[HubOf[c]]) = Cardinality(clients[HubOf[c]])
          /\ Send' = Send
          /\ sendClosed' = sendClosed]_vars

C13_Witness ==
    /\ runPc["hA"] = NoReq
    /\ hubLast.op = "register"
    /\ hubLast.c = "a1"
    /\ reports["hA"].n = 3
    /\ clients["hA"] = {"a1", "a2"}
    /\ unregs = [s \in Sessions |-> 0]
    /\ Len(Send["a1"]) = 1

\* a step in which the read loop of c is through with one frame, the way
\* `kind`: the frame does not decode, SaveMessage returns an error,
\* PublishMessage returns an error (the PUBLISH failed, or the bus took it and
\* the reply did not come back), PublishMessage returns nil
FrameStep(c, kind) ==
    /\ rdLast' = FrameDone(c, kind)
    /\ IF kind = "malformed"
       THEN /\ rdPc[c] = "read"
            /\ ~rdFrame'[c].ok \/ rdFrame'[c].id = "string"
            /\ rdLast' # rdLast \/ rdFrame'[c] # rdFrame[c]
       ELSE /\ rdPc[c] \in (IF kind = "unsaved" THEN {"save"}
                            ELSE IF kind = "published" THEN {"sent"}
                            ELSE {"publish", "sent"})
            /\ rdPc'[c] \notin {rdPc[c], "sent"}
            /\ kind = "unsaved" => store' = store

\* a step in which the bus takes the payload of the PublishMessage of c
PublishSent(c) == rdPc[c] = "publish" /\ rdPc'[c] = "sent"

\* C14 as stated: every well-formed frame is published, and is handed to the
\* sessions of the sender's hub (its payload enters the hub's delivery path or
\* a queue), whatever step of its handling fails: the read loop is through
\* with a frame only after the bus took its payload, and the step in which
\* the bus takes it puts it on the way to the local sessions.
C14_Original ==
    [][\A c \in Sessions :
          /\ \A kind \in {"unsaved", "unpublished", "published"} :
                FrameStep(c, kind) => rdPc[c] = "sent"
          /\ PublishSent(c) => (subQ'[HubOf[c]] # subQ[HubOf[c]] \/ Send' # Send)]_vars

\* C15: a frame whose publish fails is saved, the error comes back to the read
\* loop, and its return puts nothing on the bus or in any queue, submits no
\* unregister, leaves the registry, the queues' state and the transport as
\* they are, and the read loop is at its next read.
C15_PublishFailure ==
    [][\A c \in Sessions : FrameStep(c, "unpublished") =>
          /\ rdPc'[c] = "read"
          /\ Stamp(c, rdFrame[c], 0) \in Range(store)
          /\ UNCHANGED <<store, pubs, subQ, rawMsg, Send, message>>
          /\ UNCHANGED <<clients, runPc, unregs, toRemove>>
          /\ UNCHANGED <<sendClosed, closes, onceDone, connOpen, panicked>>]_vars

C15_Witness ==
    /\ rdLast = FrameDone("a1", "unpublished")
    /\ rdPc["a1"] = "publish"
    /\ Len(store) = 2
    /\ pubs = <<>>
    /\ "a1" \in clients["hA"]
    /\ ~sendClosed["a1"]
    /\ connOpen["a1"]
    /\ unregs["a1"] = 0

\* C16: a frame that does not decode is dropped: no row is stored, nothing is
\* published, no queue changes, no unregister is submitted, the registry and
\* the state of every queue stay as they are, and the read loop is at its next
\* read.
C16_MalformedFrame ==
    [][\A c \in Sessions : FrameStep(c, "malformed") =>
          /\ rdPc'[c] = "read"
          /\ UNCHANGED <<store, pubs, subQ, rawMsg, Send, message>>
          /\ UNCHANGED <<clients, runPc, unregs, toRemove>>
          /\ UNCHANGED <<sendClosed, closes, onceDone, connOpen, panicked>>]_vars

C16_Witness ==
    /\ rdLast = FrameDone("a1", "malformed")
    /\ rdPc["a1"] = "read"
    /\ clients["hA"] = {"a1", "a2"}
    /\ ~sendClosed["a1"]
    /\ Len(store) = 1
    /\ Len(written["a2"]) = 1

\* C17: the read loop leaves its loop only to unregister; once it has left,
\* the session is eventually out of the registry with its queue closed, its
\* write loop ended, its transport closed and its read loop ended.
InLoop == {"read", "save", "publish", "sent"}

C17_DisconnectTeardown ==
    /\ [][\A s \in Sessions :
            (rdPc[s] \in InLoop /\ rdPc'[s] \notin InLoop) =>
                rdPc[s] = "read" /\ rdPc'[s] = "unreg"]_vars
    /\ \A s \in Sessions :
            (rdPc[s] = "unreg")
                ~> (/\ s \notin clients[HubOf[s]]
                    /\ sendClosed[s]
                    /\ wrPc[s] = "done"
                    /\ ~connOpen[s]
                    /\ rdPc[s] = "done")

C17_Witness ==
    /\ rdPc["a1"] = "done"
    /\ unregs["a1"] = 1
    /\ "a1" \notin clients["hA"]
    /\ sendClosed["a1"]
    /\ wrPc["a1"] = "done"
    /\ ~connOpen["a1"]
    /\ CloseFrame \in Range(written["a1"])

\* C18 as stated: once the queue of a session is closed, its write loop ends
\* only after it has written every buffered payload, by the close handshake
\* on the empty queue.
C18_Original ==
    [][\A s \in Sessions :
          (sendClosed[s] /\ wrPc[s] \in {"run", "write"} /\ wrPc'[s] = "done") =>
              /\ wrPc[s] = "run"
              /\ Send[s] = <<>>
              /\ Send'[s] = <<>>]_vars

\* C18 amended: once the queue of a session is closed nothing is added to it;
\* the write loop takes its head, in queue order, and what it then writes is
\* the payload it took, and, on the empty queue, one close frame with which
\* it ends and closes the transport; a close frame is the last frame
\* written, so no chat payload follows it; the loop ends earlier, without the
\* close frame, only by a step that writes nothing (a failed write or a
\* failed probe).
C18_ClosedQueueDrain ==
    /\ [][\A s \in Sessions : sendClosed[s] =>
            /\ Send'[s] # Send[s] =>
                  /\ Send[s] # <<>>
                  /\ Send'[s] = Tail(Send[s])
                  /\ message'[s] = <<Head(Send[s])>>
            /\ written'[s] # written[s] =>
                  IF wrPc[s] = "write"
                  THEN /\ written'[s] = Append(written[s], Head(message[s]))
                       /\ wrPc'[s] = "run"
                  ELSE /\ Send[s] = <<>>
                       /\ wrPc[s] = "run"
                       /\ written'[s] = Append(written[s], CloseFrame)
                       /\ wrPc'[s] = "done"
                       /\ ~connOpen'[s]
            /\ (wrPc[s] \in {"run", "write"} /\ wrPc'[s] = "done"
                    /\ (Send[s] # <<>> \/ wrPc[s] = "write")) =>
                  written'[s] = written[s] /\ ~connOpen'[s]]_vars
    /\ [](\A s \in Sessions : \A i \in DOMAIN written[s] :
            written[s][i] = CloseFrame =>
                /\ i = Len(written[s])
                /\ sendClosed[s] /\ Send[s] = <<>> /\ message[s] = NoMsg
                /\ wrPc[s] = "done")

C18_Witness ==
    /\ Len(pubs) = 3
    /\ sendClosed["a2"]
    /\ rdPc["a2"] = "read"
    /\ unregs["a2"] = 1
    /\ written["a2"] = <<pubs[1], pubs[2], CloseFrame>>
    /\ wrPc["a2"] = "done"

\* C19: a payload taken from the queue whose write fails, and a failed probe,
\* end the write loop and close the transport; a write loop that has ended
\* stays ended, its transport stays closed and nothing more is written for
\* the session, whatever is still or later put in its queue.
Writing == {"run", "write"}

C19_WriteFailure ==
    /\ [][\A s \in Sessions :
            /\ (wrPc[s] = "write" /\ wrPc'[s] # "write" /\ written'[s] = written[s])
                  => (wrPc'[s] = "done" /\ ~connOpen'[s])
            /\ (wrPc[s] \in Writing /\ wrPc'[s] \notin Writing)
                  => (wrPc'[s] = "done" /\ ~connOpen'[s])
            /\ wrPc[s] = "done"
                  => (wrPc'[s] = "done" /\ written'[s] = written[s] /\ ~connOpen'[s])]_vars
    /\ [](\A s \in Sessions : wrPc[s] = "done" => ~connOpen[s])

C19_Witness ==
    /\ wrPc["a2"] = "done"
    /\ ~sendClosed["a2"]
    /\ "a2" \in clients["hA"]
    /\ written["a2"] = <<>>
    /\ Len(Send["a2"]) = 1
    /\ Send["a2"][1].seq = 2

\* C20 as stated: a session is in the registry before either of its loops
\* starts, and a hub delivers only to sessions whose write loop has started.
C20_Original ==
    /\ [](\A s \in Sessions : (rdPc[s] # "idle" \/ wrPc[s] # "idle") => Admitted(s))
    /\ [][\A h \in Hubs : DeliverStep(h) =>
            \A s \in clients[h] : wrPc[s] # "idle"]_vars

\* C20 amended: both loops of a session start together, after the hub has
\* received the session's register request (RegisterClient has returned); the
\* hub handles that request before any unregister request of the session, so
\* from then on the session is in the registry, or the hub is still in the
\* register case, or the session has been removed.
Received(s) == svPc[s] \in {"registered", "started"}

C20_RegisterBeforeLoops ==
    /\ [](\A s \in Sessions :
            /\ (rdPc[s] = "idle") <=> (wrPc[s] = "idle")
            /\ rdPc[s] # "idle" => svPc[s] = "started"
            /\ Received(s) =>
                  \/ runPc[HubOf[s]] = Req("register", s)
                  \/ s \in clients[HubOf[s]]
                  \/ unregs[s] > 0
            /\ unregs[s] > 0 => Admitted(s))
    /\ [][\A s \in Sessions :
            (rdPc[s] = "idle" /\ rdPc'[s] # "idle") => Received(s)]_vars

C20_Witness ==
    /\ wrPc["a1"] = "run"
    /\ rdPc["a1"] = "read"
    /\ runPc["hA"] = Req("register", "a1")
    /\ "a1" \notin clients["hA"]

\* C21: a step of the teardown of a session (its read loop leaving the loop,
\* unregistering and closing the transport, its write loop ending, the hub
\* removing it and closing its queue) changes, for every other session,
\* neither its membership of a registry, nor its queue, nor whether its queue
\* is closed, nor its transport, nor the position of its loops.
TeardownStep(s) ==
    \/ rdPc[s] \in {"read", "unreg", "closing"} /\ rdPc'[s] \in {"unreg", "closing", "done"}
          /\ rdPc'[s] # rdPc[s]
    \/ wrPc[s] \in Writing /\ wrPc'[s] = "done"
    \/ s \in clients[HubOf[s]] /\ s \notin clients'[HubOf[s]]
    \/ sendClosed'[s] # sendClosed[s]
    \/ connOpen[s] /\ ~connOpen'[s]

C21_TransportFaultLocal ==
    [][\A s \in Sessions : TeardownStep(s) =>
          \A o \in Sessions \ {s} :
              /\ (o \in clients'[HubOf[o]]) <=> (o \in clients[HubOf[o]])
              /\ Send'[o] = Send[o]
              /\ sendClosed'[o] = sendClosed[o]
              /\ connOpen'[o] = connOpen[o]
              /\ rdPc'[o] = rdPc[o] /\ wrPc'[o] = wrPc[o]]_vars

C21_Witness ==
    /\ rdPc["a1"] = "done"
    /\ wrPc["a1"] = "done"
    /\ "a1" \notin clients["hA"]
    /\ sendClosed["a1"]
    /\ unregs["a1"] = 1
    /\ "a2" \in clients["hA"]
    /\ ~sendClosed["a2"]
    /\ Len(Send["a2"]) = 1
    /\ connOpen["a2"]

\* C26 as stated: every entry of the table of the load balancer holds a load
\* that is not negative.
C26_Original ==
    \A a \in DOMAIN lbServers : lbServers[a] >= 0

\* C27: no step removes an address from the table of the load balancer, and
\* a GET /get answered on a table that holds an address is answered 200 with
\* an address of the table, whether or not a process serves it.
C27_EntriesStay ==
    /\ [][DOMAIN lbServers \subseteq DOMAIN lbServers']_vars
    /\ [][\A r \in Handlers : (GetAnswered(r) /\ DOMAIN lbServers # {}) =>
            /\ lbLast'.status = 200
            /\ lbLast'.Address \in DOMAIN lbServers']_vars

C27_Witness ==
    /\ lbLast = LBAnswer("get", 200, "hB", 0)
    /\ DOMAIN lbServers = LBAddrs
    /\ \A r \in Handlers : lbPc[r] = Idle

\* C29: a register or update request is answered 400 or 200; it is answered
\* 400 exactly when its body does not decode, before the handler takes the
\* lock, and such a handler never writes the table; it is answered 200 after
\* the handler wrote the entry of its body; the step that answers leaves the
\* table as it is.
C29_MalformedBody ==
    /\ [][\A r \in Handlers : PostAnswered(r) =>
            /\ lbLast'.op = lbPc[r].op
            /\ lbLast'.status \in {200, 400}
            /\ lbLast'.status = 400 <=> ~lbPc[r].body.ok
            /\ lbLast'.status = 400 => lbPc[r].at = "decoded"
            /\ lbLast'.status = 200 =>
                  /\ lbPc[r].at = "unlocked"
                  /\ lbPc[r].body.address \in DOMAIN lbServers
            /\ lbServers' = lbServers]_vars
    /\ [](\A r \in Handlers :
            (lbPc[r].op \in {"register", "update"} /\ ~lbPc[r].body.ok) =>
                lbPc[r].at \in {"decoded", "responded"} /\ lbMu # r)
    /\ [][lbServers' # lbServers => \E r \in Handlers : Applied(r) /\ lbPc[r].body.ok]_vars

C29_Witness ==
    /\ lbLast.op = "register"
    /\ lbLast.status = 400
    /\ \E r \in Handlers : lbPc[r].op = "register" /\ lbPc[r].at = "responded"
    /\ DOMAIN lbServers = {"hA"}
    /\ lbServers["hA"] = 1

\* the subscription that listenToRedis of h made is closed
Dropped(h) == ~subLive[h] /\ lsPc[h] \notin {"idle", "start"}

\* C22 as stated: once the subscription of a hub has dropped, no further
\* payload of the bus enters the hub, the end of the read loop leaves the
\* registry as it is, and a message that a session of that hub publishes
\* still enters the delivery path of the hub towards its local sessions.
C22_Original ==
    [][\A h \in Started : Dropped(h) =>
          /\ (lsPc[h] # "done" /\ lsPc'[h] = "done") => clients'[h] = clients[h]
          /\ \A c \in SessionsOf(h) : PublishSent(c) =>
                \/ subQ'[h] = Append(subQ[h], pubs'[Len(pubs')])
                \/ \E s \in clients[h] : Send'[s] = Append(Send[s], pubs'[Len(pubs')])]_vars

\* C25: a delivery that meets a registered session whose queue is full still
\* appends the payload to the queue of every registered session with room and
\* leaves the full queue and every write loop as they are; and, whether or
\* not any write loop ever takes a payload from its queue, a read loop of a
\* subscription that has evictions to hand over or payloads to take comes back
\* to its receive with every payload of its subscription taken.
Busy(h) == lsPc[h] \in {"lock", "evict"} \/ subQ[h] # <<>>

C25_BackpressureNoStall ==
    /\ [][\A h \in Hubs : (DeliverStep(h) /\ Stalled(h) # {}) =>
            /\ \A s \in clients[h] \ Stalled(h) :
                  Send'[s] = Append(Send[s], Head(rawMsg[h]))
            /\ \A s \in Stalled(h) : Send'[s] = Send[s]
            /\ lsPc'[h] = "evict"
            /\ wrPc' = wrPc /\ written' = written /\ message' = message]_vars
    /\ \A h \in {HubOf[s] : s \in Slow.dialers} : []<>~Busy(h)

C25_Witness ==
    /\ "a2" \notin clients["hA"]
    /\ closes["a2"] = 1
    /\ Len(Send["a2"]) = SendCap
    /\ written["a2"] = <<>>
    /\ rdPc["a2"] = "read"
    /\ "a1" \in clients["hA"]
    /\ Len(written["a1"]) = SendCap + 1
    /\ Len(pubs) = SendCap + 1
    /\ lsPc["hA"] = "recv"
    /\ subQ["hA"] = <<>>

\* C23 as stated: a hub whose read loop of the subscription has ended has
\* logged or returned an error about its subscription, or its process has
\* stopped with a runtime error.
C23_Original ==
    \A h \in Hubs : (h \in Started /\ lsPc[h] = "done") =>
        ("subscription" \in hubErrs[h] \/ panicked[h])

\* a step in which the read loop of c has read a frame and decoded it or
\* dropped it
FrameRead(c) ==
    /\ rdPc[c] = "read"
    /\ rdPc'[c] = "save" \/ FrameStep(c, "malformed")

\* C24 as stated: the other fields of a frame are ignored, so the read loop
\* takes up every JSON frame as a chat message of its content, as it does the
\* frame that holds that content alone.
C24_Original ==
    [][\A c \in Sessions : (FrameRead(c) /\ rdFrame'[c].ok) => rdPc'[c] = "save"]_vars

\* C24 amended: the message a read loop publishes for a frame, and the row it
\* stores, carry the username of the request that opened the session, the
\* address of the hub of the session and the content of the frame, whatever
\* the username field of the frame holds and whatever well-typed id it holds:
\* they are the same for two such frames of equal content. A JSON frame
\* whose id is a string is dropped like a frame that is not JSON, whatever
\* its content.
C24_ServerStamps ==
    /\ [][\A c \in Sessions : FrameRead(c) =>
            (rdPc'[c] = "save" <=> (rdFrame'[c].ok /\ rdFrame'[c].id # "string"))]_vars
    /\ [][\A c \in Sessions : PublishSent(c) =>
            /\ Len(pubs') = Len(pubs) + 1
            /\ pubs'[Len(pubs')] =
                  Msg(username[c], rdFrame[c].content, HubOf[c], Len(pubs'))
            /\ Msg(username[c], rdFrame[c].content, HubOf[c], 0) \in Range(store)
            /\ username[c] = UserOf[c]]_vars
    /\ [][\A c \in Sessions : (rdPc[c] = "save" /\ rdPc'[c] = "publish") =>
            store' = Append(store, Msg(UserOf[c], rdFrame[c].content, HubOf[c], 0))]_vars
    /\ [][store' # store => \E c \in Sessions : rdPc[c] = "save" /\ rdPc'[c] = "publish"]_vars

C24_Witness ==
    /\ rdLast = FrameDone("a1", "published")
    /\ rdFrame["a1"] = [ok |-> TRUE, content |-> "y", username |-> "eve", id |-> "number"]
    /\ Len(pubs) = 2
    /\ pubs[1] = Msg("ann", "y", "hA", 1)
    /\ pubs[2] = Msg("ann", "y", "hA", 2)

\* C28: a request whose username query value is empty is answered 400, and
\* the step that answers it changes nothing of the hub, of the sessions or of
\* the load balancer; the session of such a request never has a transport, a
\* queue with a payload, a loop, a place in the registry or a request to
\* Hub.Run.
C28_UsernameRequired ==
    /\ [](\A s \in Sessions : username[s] = "" =>
            /\ svPc[s] = "rejected"
            /\ ~connOpen[s]
            /\ s \notin clients[HubOf[s]]
            /\ runPc[HubOf[s]].c # s
            /\ rdPc[s] = "idle" /\ wrPc[s] = "idle"
            /\ Send[s] = <<>> /\ ~sendClosed[s]
            /\ unregs[s] = 0)
    /\ [][\A s \in Sessions : (username[s] = NoQuery /\ username'[s] = "") =>
            /\ UNCHANGED <<lbVars, hubVars, rdPc, wrPc, Send, sendClosed, onceDone,
                           connOpen, written, message>>
            /\ UNCHANGED <<store, pubs, closes, unregs, reports, hubErrs>>]_vars

C28_Witness ==
    /\ username["a1"] = ""
    /\ svPc["a1"] = "rejected"
    /\ clients["hA"] = {"a2"}
    /\ reports["hA"] = [n |-> 1, load |-> 1, sent |-> TRUE]
    /\ lbServers["hA"] = 1

\* C30: at most one goroutine of a hub is between its Lock and its Unlock of
\* the mutex of the registry, the mutex is held exactly then, and the registry
\* changes only while Hub.Run is there, the fan-out runs only while the read
\* loop of the subscription is there, and GetLoad returns the size of the
\* registry while its caller is there.
C30_RegistryMutex ==
    /\ [](\A h \in Hubs : /\ Cardinality(Accessing(h)) <= 1
                           /\ mu[h] <=> Accessing(h) # {})
    /\ [][\A h \in Hubs :
            /\ clients'[h] # clients[h] => Accessing(h) = {"run"}
            /\ DeliverStep(h) => Accessing(h) = {"listen"}
            /\ loadRead'[h] # loadRead[h] =>
                  /\ Accessing(h) = {"load"}
                  /\ loadRead'[h] = <<Cardinality(clients[h])>>]_vars

C30_Witness ==
    /\ Accessing("hA") = {"load"}
    /\ runPc["hA"] = Req("unregister", "a1")
    /\ subQ["hA"] # <<>>
    /\ clients["hA"] = {"a1", "a2"}
    /\ loadRead["hA"] = <<1>>

\* C33: a delivery never finds in the registry a session whose queue is
\* closed: no fan-out sends on a closed queue, and no process stops with a
\* runtime error.
C33_NoSendOnClosed ==
    /\ [][\A h \in Hubs : DeliverStep(h) =>
            /\ \A c \in clients[h] : ~sendClosed[c]
            /\ ~panicked'[h]]_vars
    /\ [](\A h \in Hubs : ~panicked[h] /\ \A c \in Range(toRemove[h]) : HubOf[c] = h)

C33_Witness ==
    /\ rdPc["a1"] = "done"
    /\ sendClosed["a1"]
    /\ unregs["a1"] = 2
    /\ Len(Send["a1"]) = SendCap
    /\ "a2" \in clients["hA"]
    /\ Len(written["a2"]) = 2
    /\ subQ["hA"] = <<>>

\* C35: a session whose write loop has ended while the session is in the
\* registry is eventually out of the registry with its queue closed, and the
\* last load the hub reported is then the size of its registry.
C35_NoLeakedEntry ==
    [](\A s \in Sessions :
          (wrPc[s] = "done" /\ s \in clients[HubOf[s]])
              => <>(/\ s \notin clients[HubOf[s]]
                    /\ sendClosed[s]
                    /\ reports[HubOf[s]].load = Cardinality(clients[HubOf[s]])))

C35_Witness ==
    /\ scn = Kept
    /\ wrPc["a1"] = "done"
    /\ CloseFrame \notin Range(written["a1"])
    /\ unregs["a1"] = 1
    /\ rdPc["a1"] = "done"
    /\ "a1" \notin clients["hA"]
    /\ closes["a1"] = 1
    /\ reports["hA"].n = 2 /\ reports["hA"].load = 0

\* C36: every published message has its row in the store; every payload in
\* a subscription, held by a read loop of a subscription, in a queue, held
\* by a write loop or written to a transport is a published message; a
\* message is published only by a read loop that has stored its row; a frame
\* whose save failed publishes nothing, stores nothing and leaves the read
\* loop reading.
C36_PersistBeforePublish ==
    /\ [](\A i \in DOMAIN pubs : \E j \in DOMAIN store :
            store[j] = [pubs[i] EXCEPT !.seq = 0])
    /\ [](/\ \A h \in Hubs : Range(subQ[h] \o rawMsg[h]) \subseteq Range(pubs)
          /\ \A s \in Sessions :
                /\ Range(Send[s] \o message[s]) \subseteq Range(pubs)
                /\ Range(written[s]) \ {CloseFrame} \subseteq Range(pubs))
    /\ [][pubs' # pubs => \E c \in Sessions :
            /\ rdPc[c] = "publish"
            /\ rdPc'[c] = "sent"
            /\ pubs' = Append(pubs, Stamp(c, rdFrame[c], Len(pubs) + 1))
            /\ Stamp(c, rdFrame[c], 0) \in Range(store)]_vars
    /\ [][\A c \in Sessions : FrameStep(c, "unsaved") =>
            /\ pubs' = pubs /\ store' = store /\ subQ' = subQ /\ Send' = Send
            /\ rdPc'[c] = "read"]_vars

C36_Witness ==
    /\ rdLast = FrameDone("a1", "unsaved")
    /\ Len(store) = 1
    /\ Len(pubs) = 1
    /\ rdPc["a1"] = "read"
    /\ Len(written["a2"]) = 1

\* C37: the chat messages written to the transport of a session followed by
\* those of its queue and those its hub has still to take from its
\* subscription are in the order in which the bus handed them to the hub, so
\* no two sessions of a hub have two messages written in opposite orders.
Chats(q) == SelectSeq(q, LAMBDA m : m # CloseFrame)
Ordered(q) == \A i, j \in DOMAIN q : i < j => q[i].seq < q[j].seq

C37_PerHubOrder ==
    /\ \A s \in Sessions :
          Ordered(Chats(written[s]) \o message[s] \o Send[s] \o
                  (IF s \in clients[HubOf[s]]
                   THEN rawMsg[HubOf[s]] \o subQ[HubOf[s]] ELSE <<>>))
    /\ \A s, o \in Sessions : \A i, j \in DOMAIN written[s] : \A k, l \in DOMAIN written[o] :
          (HubOf[s] = HubOf[o] /\ i < j /\ k < l /\ written[s][j] # CloseFrame) =>
              ~(written[s][i] = written[o][l] /\ written[s][j] = written[o][k])

C37_Witness ==
    /\ Len(pubs) = 3
    /\ written["a1"] = pubs
    /\ written["a2"] = <<pubs[1]>>
    /\ message["a2"] = NoMsg
    /\ Send["a2"] = <<pubs[2], pubs[3]>>

\* C38: a load report of Hub.Run that is not sent leaves the table of the
\* load balancer and the registry as they are; Hub.Run then logs the error
\* and comes back to its select without reporting again; a hub reports only
\* after a step that changed its registry, once; and the entry of a hub
\* changes only by a report that is sent.
C38_FailedLoadReport ==
    /\ [][\A h \in Hubs : (reports'[h] # reports[h] /\ ~reports'[h].sent) =>
            /\ lbServers' = lbServers
            /\ clients' = clients
            /\ ~panicked'[h]
            /\ runPc'[h] = [runPc[h] EXCEPT !.at = "posted"]]_vars
    /\ [][\A h \in Hubs : (runPc[h].at = "posted" /\ runPc'[h] # runPc[h]) =>
            /\ runPc'[h] = NoReq
            /\ reports' = reports
            /\ lbServers' = lbServers
            /\ clients' = clients
            /\ ~reports[h].sent => "update load" \in hubErrs'[h]]_vars
    /\ [][\A h \in Hubs :
            /\ reports'[h] # reports[h] =>
                  /\ reports'[h].n = reports[h].n + 1
                  /\ runPc[h].at = "report"
            /\ (runPc[h].at # "report" /\ runPc'[h].at = "report") =>
                  clients'[h] # clients[h]]_vars
    /\ [][\A h \in Hubs : Entry(lbServers', h) # Entry(lbServers, h) =>
            reports'[h].n = reports[h].n + 1 /\ reports'[h].sent]_vars

C38_Witness ==
    /\ reports["hA"] = [n |-> 2, load |-> 0, sent |-> FALSE]
    /\ lbServers["hA"] = 1
    /\ clients["hA"] = {}
    /\ runPc["hA"] = NoReq

\* C39: the step that answers a GET /get leaves the table as it is, so that
\* a selection on the table it leaves is answered with the same status and
\* the same load, whatever the order of its scan.
C39_SelectionReadOnly ==
    [][\A r \in Handlers : GetAnswered(r) =>
          /\ lbServers' = lbServers
          /\ \A order \in Orders(DOMAIN lbServers') :
                /\ getServer(lbServers', order).status = lbLast'.status
                /\ getServer(lbServers', order).load = lbLast'.load]_vars

C39_Witness ==
    /\ lbLast = LBAnswer("get", 200, "hB", 1)
    /\ lbServers = [a \in LBAddrs |-> 1]
    /\ \E r \in Handlers : lbPc[r].op = "get" /\ lbPc[r].at = "responded"

\* C32: a handler of the load balancer that has written its response does
\* not hold lb.mu: the lock is never held across the write of a response.
C32_Original ==
    \A r \in Handlers : lbPc[r].at = "responded" => lbMu # r

\* C40: in the single-file server Hub.run is never at the h.getLoad() of the
\* log line of its unregister case, waiting for the h.mu it holds.
C40_Original ==
    \A h \in Hubs : ~(lkPc[h]["run"] = "log" /\ MonoHolds(h))

\* C34: listenToRedis does not hold h.mu while it waits to send on
\* h.unregister, h.mu is only held by a goroutine between its Lock and its
\* Unlock (so not by Hub.Run while it reports), and, the goroutines of the
\* Hub running, Hub.Run comes back to its select, every sender waiting on
\* h.register or h.unregister is received, and listenToRedis takes every
\* payload of its subscription.
SoloSenders ==
    {Sender("register", s, "serve") : s \in Flaky.dialers}
        \cup {Sender("unregister", s, by) : s \in Flaky.dialers, by \in {"read", "listen"}}

C34_NoHubDeadlock ==
    /\ [](\A h \in Hubs :
            /\ lsPc[h] = "evict" => lkPc[h]["listen"] = "out"
            /\ runPc[h].at \in {"report", "posted"} => lkPc[h]["run"] = "out"
            /\ mu[h] <=> Accessing(h) # {}
            /\ Cardinality(Accessing(h)) <= 1)
    /\ [](\A h \in Hubs :
            /\ runPc[h] # NoReq => <>(runPc[h] = NoReq)
            /\ \A r \in SoloSenders :
                  r \in Range(waitQ[h]) => <>(r \notin Range(waitQ[h]))
            /\ subQ[h] # <<>> => <>(subQ[h] = <<>>))

C34_Witness ==
    /\ lsPc["hA"] = "evict"
    /\ waitQ["hA"] = <<Sender("unregister", "a1", "read"), Sender("unregister", "a1", "listen")>>
    /\ runPc["hA"].at = "report"
    /\ ~mu["hA"]

\* C31 as stated: the sender Hub.Run receives from has no sender of the
\* other operation that came before it and still waits.
C31_Original ==
    [][\A h \in Hubs : \A i, j \in DOMAIN waitQ[h] :
          (i < j /\ waitQ[h][j] \notin Range(waitQ'[h])) => waitQ[h][i].op = waitQ[h][j].op]_vars

\* C31, amended: Hub.Run receives a request only at its select, from a
\* sender that waits, and changes the registry only in the case of the
\* request it received, as that request says; and it receives an unregister
\* of a session only after it has run the register case of that session.
C31_AcceptOrder ==
    [][\A h \in Hubs :
          /\ (runPc'[h] # runPc[h] /\ runPc[h] # NoReq /\ runPc'[h] # NoReq) =>
                /\ runPc'[h].op = runPc[h].op
                /\ runPc'[h].c = runPc[h].c
          /\ (runPc[h] = NoReq /\ runPc'[h] # NoReq) =>
                /\ runPc'[h].at = "case"
                /\ lkPc[h]["run"] = "out"
                /\ clients' = clients
                /\ \E r \in Range(waitQ[h]) :
                      /\ r.op = runPc'[h].op /\ r.c = runPc'[h].c
                      /\ r \notin Range(waitQ'[h])
                /\ runPc'[h].op = "unregister" =>
                      (runPc'[h].c \in clients[h] \/ unregs[runPc'[h].c] > 0)
          /\ clients'[h] # clients[h] =>
                /\ lkPc[h]["run"] = "in"
                /\ runPc[h].at = "case"
                /\ clients'[h] = IF runPc[h].op = "register"
                                 THEN clients[h] \cup {runPc[h].c}
                                 ELSE clients[h] \ {runPc[h].c}]_vars

C31_Witness ==
    /\ waitQ["hA"] = <<Sender("unregister", "a1", "read"), Sender("register", "a2", "serve")>>
    /\ runPc["hA"] = NoReq
====
